---------------------------- MODULE Spec2Model ----------------------------
(***************************************************************************)
(* Exam paper assembly: the question selector (src/src/paper/selector.py), *)
(* the fresh-question plan builder (src/src/paper/generator.py) and the    *)
(* paper orchestrator (src/src/paper/orchestrator.py).                     *)
(*                                                                         *)
(* Conventions.  A Python dict is a sequence of <<key, value>> pairs in    *)
(* insertion order.  Percentages are integers (15 stands for 0.15).        *)
(* Python's None is "" for a string argument and 0 for an integer one:     *)
(* the code tests these arguments by truthiness, which "" and 0 fail just  *)
(* as None does.  A question returned by _find_best_question is its        *)
(* 1-based position in the candidate list, 0 when the code returns None.   *)
(***************************************************************************)
EXTENDS Integers, Sequences, FiniteSets, TLC

VARIABLES
    entry,            \* the call under analysis
    blueprint,        \* PaperBlueprint handed to the call
    db_questions,     \* rows get_questions_by_filters returns, in row order
    randomize,        \* select_questions' randomize argument
    sel_pc,           \* position inside select_questions
    candidates,       \* _greedy_select_with_backtracking: candidates
    selected,         \* _greedy_select_with_backtracking: selected
    remaining_marks,  \* _greedy_select_with_backtracking: remaining_marks
    co_fulfilled,     \* _greedy_select_with_backtracking: co_fulfilled
    unit_fulfilled,   \* _greedy_select_with_backtracking: unit_fulfilled
    co_i,             \* position of the for-loop over co_requirements
    unit_i,           \* position of the for-loop over unit_requirements
    result,           \* the SelectionResult returned ("pending" fields before)
    gen_pc,           \* position inside generate_paper_questions
    plan,             \* _build_generation_plan: plan
    plan_remaining,   \* _build_generation_plan: remaining_marks
    plan_i,           \* position of the for-loop of phase 1 / phase 2
    allocated,        \* marks_allocated (phase 1), allocated (phase 2)
    question_ids,     \* generate_paper_questions: question_ids
    gen_i,            \* position of the for-loop over generation_plan
    calls,            \* the generate_question calls made so far and how each ended
    db_generated,     \* the rows the returned question ids stand for
    has_generator,    \* PaperOrchestrator was built with a question_generator
    min_from_bank,    \* generate_paper_hybrid's min_from_bank argument
    orch_pc,          \* position inside the orchestrator call
    bank_questions,   \* generate_paper_hybrid: bank_questions
    papers,           \* the rows add_exam_paper has stored, oldest first
    rendered,         \* the question id lists handed to generate_pdf
    orch_ret,         \* what the orchestrator call returned
    call_no,          \* which of the caller's select_questions calls is running
    first_result,     \* the SelectionResult the caller's first call returned
    job_queue,        \* async_generator._job_queue: 0 for None, else the JobQueue
    n_queues,         \* how many JobQueue objects have been constructed
    running,          \* JobQueue.running of each JobQueue object
    worker_thread,    \* JobQueue.worker_thread of each object: 0 for None
    jobs,             \* the Job objects in creation order: queue, status, executions
    workers,          \* the worker threads spawned: queue, position, job in hand
    threads,          \* the calling threads: position and local references
    cancel_true,      \* the jobs for which a cancel_job call has returned True
    bank,             \* the rows of the questions table
    faculty_id        \* select_questions' faculty_id argument

selVars == <<sel_pc, candidates, selected, remaining_marks, co_fulfilled,
             unit_fulfilled, co_i, unit_i, result>>
genVars == <<gen_pc, plan, plan_remaining, plan_i, allocated, question_ids, gen_i,
             calls, db_generated>>
orchVars == <<orch_pc, bank_questions, papers, rendered, orch_ret>>
inputVars == <<entry, blueprint, db_questions, randomize, has_generator, min_from_bank>>
callVars == <<call_no, first_result>>
jobVars == <<job_queue, n_queues, running, worker_thread, jobs, workers, threads,
             cancel_true>>
bankVars == <<bank, faculty_id>>
\* what no step of the selector, the generator or the orchestrator changes
outerVars == <<inputVars, callVars, jobVars, bankVars>>

-----------------------------------------------------------------------------
(* Bounds of the model *)

\* largest number of rows the question bank returns
MaxPool == 3
\* largest total-marks target of a blueprint
MaxTarget == 10
\* largest number of rows the bank of the midterm scenario returns
MaxScenarioPool == 6
\* largest number of jobs submitted
MaxJobs == 2
\* largest number of worker threads spawned
MaxWorkers == 2
\* largest number of rows in the questions table
MaxBank == 3

-----------------------------------------------------------------------------
(* Data *)

\* the program outcomes the pedagogy agent has tagged a question with: a list
\* of none, one or two outcomes
TaggedOutcomes(id) ==
    CASE id % 3 = 0 -> <<>>
      [] id % 3 = 1 -> <<"PO1", "PO2">>
      [] OTHER -> <<"PO1">>

Question(id, co, unit, bloom, diff, marks, quality) ==
    [id |-> id, primary_co |-> co, unit_id |-> unit, bloom_level |-> bloom,
     difficulty |-> diff, marks |-> marks, quality_score |-> quality,
     program_outcomes |-> TaggedOutcomes(id)]

\* The accepted questions a bank may hold for the course.
Catalog ==
    { Question(1, "CO1", "unit_1", 1, "easy",   5,  80),
      Question(2, "CO1", "unit_2", 2, "medium", 10, 60),
      Question(3, "CO2", "unit_1", 2, "hard",   5,  80),
      Question(4, "CO2", "unit_2", 3, "medium", 2,  90),
      Question(5, "CO1", "unit_1", 3, "medium", 2,  60),
      Question(6, "CO2", "unit_2", 1, "easy",   10, 70) }

RECURSIVE SeqOfSet(_)
\* the rows of a set of questions in id order (the order the table yields)
SeqOfSet(S) ==
    IF S = {} THEN <<>>
    ELSE LET q == CHOOSE x \in S : \A y \in S : x.id <= y.id
         IN <<q>> \o SeqOfSet(S \ {q})

Pools == { SeqOfSet(S) : S \in { X \in SUBSET Catalog : Cardinality(X) <= MaxPool } }

\* blueprint.course_code, and the code of another course in the same table
course_code == "CS301"
OtherCourse == "CS302"

\* a row of the questions table: the question and its review columns
BankRow(q, faculty, status, course) ==
    [q |-> q, faculty_id |-> faculty, review_status |-> status, course_code |-> course]

\* who wrote a row and where it stands: either faculty; accepted or pending
\* for the course, or accepted for another course
RowColumns ==
    { <<f, sc[1], sc[2]>> :
        f \in {"f1", "f2"},
        sc \in { <<"accepted", course_code>>, <<"pending", course_code>>,
                 <<"accepted", OtherCourse>> } }

\* the ids of the questions a table may hold
BankIds == 1..4

\* the questions tables: ids are the primary key, so a table holds at most
\* one row of each question
Banks ==
    UNION { { { BankRow(CHOOSE q \in Catalog : q.id = i, col[i][1], col[i][2], col[i][3]) : i \in I } :
                col \in [I -> RowColumns] } :
            I \in { X \in SUBSET BankIds : Cardinality(X) <= MaxBank } }

\* the faculty_id arguments: None, a faculty with rows, a faculty without
FacultyIds == {"", "f1", "f3"}

\* the table whose accepted rows of the course are the given questions
BankOf(qs) == { BankRow(qs[i], "f1", "accepted", course_code) : i \in 1..Len(qs) }

\* the orders random.shuffle can leave a list in
Shuffles(s) ==
    { [i \in 1..Len(s) |-> s[p[i]]] :
        p \in { f \in [1..Len(s) -> 1..Len(s)] :
                  \A i, j \in 1..Len(s) : i # j => f[i] # f[j] } }

CoOptions ==
    { <<>>,
      << <<"CO1", 5>> >>,
      << <<"CO1", 5>>, <<"CO2", 5>> >>,
      << <<"CO1", 2>>, <<"CO2", 2>> >>,
      << <<"CO2", 3>>, <<"CO1", 6>> >> }

UnitOptions == { <<>>, << <<"unit_1", 5>> >>, << <<"unit_2", 4>>, <<"unit_1", 2>> >> }

BloomOptions == { <<>>, << <<1, 40>>, <<2, 60>> >> }

Abs(x) == IF x < 0 THEN -x ELSE x

\* the dict set_difficulty_mix stores
DifficultyMix(easy, medium, hard) ==
    << <<"easy", easy>>, <<"medium", medium>>, <<"hard", hard>> >>

\* set_difficulty_mix raises ValueError (line 87)
set_difficulty_mix_raises(easy, medium, hard) == Abs((easy + medium + hard) - 100) > 1

\* the percentages callers pass for easy, medium and hard
MixArgs == { <<30, 70, 0>>, <<60, 0, 0>> }

\* the mixes a blueprint built with set_difficulty_mix can hold
DifficultyOptions ==
    { <<>> } \cup { DifficultyMix(a[1], a[2], a[3]) :
                      a \in { x \in MixArgs : ~set_difficulty_mix_raises(x[1], x[2], x[3]) } }

ConstraintTypes(co, unit, bloom, diff) ==
    (IF co # <<>> THEN {"co_coverage"} ELSE {})
    \cup (IF unit # <<>> THEN {"unit_coverage"} ELSE {})
    \cup (IF bloom # <<>> THEN {"bloom_distribution"} ELSE {})
    \cup (IF diff # <<>> THEN {"difficulty_mix"} ELSE {})

\* blueprints built with set_total_marks (both required constraints present)
ValidBlueprints ==
    { [types |-> {"marks_total", "duration"} \cup ConstraintTypes(co, unit, sd[1], sd[2]),
       marks_total |-> t, co_coverage |-> co, unit_coverage |-> unit,
       bloom_distribution |-> sd[1], difficulty_mix |-> sd[2]] :
        t \in 1..MaxTarget, co \in CoOptions, unit \in UnitOptions,
        sd \in { <<b, d>> \in BloomOptions \X DifficultyOptions : (b = <<>>) = (d = <<>>) } }

\* blueprints loaded by from_dict without one of the required constraints
InvalidBlueprints ==
    { [types |-> ty, marks_total |-> 10, co_coverage |-> <<>>, unit_coverage |-> <<>>,
       bloom_distribution |-> <<>>, difficulty_mix |-> <<>>] :
        ty \in { {"duration"}, {"marks_total"}, {} } }

\* the value of the first constraint of type t in a constraint list, else default
ConstraintValue(cs, t, default) ==
    LET hits == { i \in 1..Len(cs) : cs[i].type = t }
    IN IF hits = {} THEN default
       ELSE cs[CHOOSE i \in hits : \A j \in hits : i <= j].value

\* PaperBlueprint.from_dict: every constraint of the dict is appended as it is
from_dict(data) ==
    LET cs == data.constraints
    IN [types |-> { cs[i].type : i \in 1..Len(cs) },
        marks_total |-> ConstraintValue(cs, "marks_total", 0),
        co_coverage |-> ConstraintValue(cs, "co_coverage", <<>>),
        unit_coverage |-> ConstraintValue(cs, "unit_coverage", <<>>),
        bloom_distribution |-> ConstraintValue(cs, "bloom_distribution", <<>>),
        difficulty_mix |-> ConstraintValue(cs, "difficulty_mix", <<>>)]

\* stored blueprint dicts (the 'blueprint' parameter of a create_paper job)
BlueprintDicts ==
    { [constraints |->
         << [type |-> "marks_total", value |-> t],
            [type |-> "duration", value |-> 90],
            [type |-> "co_coverage", value |-> << <<"CO1", 5>> >>],
            [type |-> "difficulty_mix", value |-> DifficultyMix(a[1], a[2], a[3])] >>] :
        t \in {5, MaxTarget}, a \in MixArgs }

\* blueprints loaded by from_dict with both required constraints
LoadedBlueprints == { from_dict(d) : d \in BlueprintDicts }

Blueprints == ValidBlueprints \cup InvalidBlueprints \cup LoadedBlueprints

\* create_midterm_blueprint
create_midterm_blueprint ==
    [types |-> {"marks_total", "duration", "bloom_distribution", "difficulty_mix",
                "co_coverage", "question_count"},
     marks_total |-> 50,
     co_coverage |-> << <<"CO1", 10>>, <<"CO2", 15>>, <<"CO3", 15>>, <<"CO4", 10>> >>,
     unit_coverage |-> <<>>,
     bloom_distribution |-> << <<1, 15>>, <<2, 25>>, <<3, 30>>, <<4, 20>>, <<5, 10>> >>,
     difficulty_mix |-> DifficultyMix(20, 60, 20)]

\* the midterm blueprint, and the same built without set_difficulty_mix
ScenarioBlueprints ==
    { create_midterm_blueprint,
      [create_midterm_blueprint EXCEPT !.types = @ \ {"difficulty_mix"},
                                       !.difficulty_mix = <<>>] }

\* accepted questions of a midterm course: for each CO one whose marks equal
\* the CO's minimum and a smaller one
ScenarioCatalog ==
    { Question(1, "CO1", "unit_1", 1, "easy",   10, 90),
      Question(2, "CO1", "unit_1", 2, "medium", 2,  60),
      Question(3, "CO2", "unit_2", 3, "medium", 15, 70),
      Question(4, "CO2", "unit_2", 4, "hard",   5,  90),
      Question(5, "CO3", "unit_3", 5, "hard",   15, 70),
      Question(6, "CO3", "unit_3", 1, "medium", 5,  90),
      Question(7, "CO4", "unit_4", 2, "medium", 10, 70),
      Question(8, "CO4", "unit_4", 3, "easy",   2,  90) }

\* the banks that hold at least one question of each CO of the midterm
ScenarioPools ==
    { SeqOfSet(S) :
        S \in { X \in SUBSET ScenarioCatalog :
                  /\ Cardinality(X) <= MaxScenarioPool
                  /\ \A c \in {"CO1", "CO2", "CO3", "CO4"} :
                        \E q \in X : q.primary_co = c } }

\* the blueprints select_questions is run on against a questions table
EligibleBlueprints ==
    { bp \in ValidBlueprints :
        /\ bp.bloom_distribution = <<>>
        /\ Len(bp.co_coverage) + Len(bp.unit_coverage) <= 1
        /\ bp.marks_total \in {5, MaxTarget} }
    \cup InvalidBlueprints

\* the blueprints the orchestrator is run on: no soft distribution, three targets
OrchBlueprints ==
    { bp \in ValidBlueprints :
        /\ bp.bloom_distribution = <<>>
        /\ bp.marks_total \in {5, MaxTarget - 1, MaxTarget} }
    \cup InvalidBlueprints

-----------------------------------------------------------------------------
(* blueprint.py *)

\* PaperBlueprint.get_constraint(t) is not None
HasConstraint(bp, t) == t \in bp.types

\* mutant: only the total marks are required
validate_marks_only(bp) == HasConstraint(bp, "marks_total")

\* PaperBlueprint.validate: TRUE when it returns, FALSE when it raises ValueError
validate(bp) == HasConstraint(bp, "marks_total") /\ HasConstraint(bp, "duration")

\* `c.value if c else {}` for the four optional constraints
co_requirements(bp) == IF HasConstraint(bp, "co_coverage") THEN bp.co_coverage ELSE <<>>
unit_requirements(bp) == IF HasConstraint(bp, "unit_coverage") THEN bp.unit_coverage ELSE <<>>
bloom_distribution(bp) ==
    IF HasConstraint(bp, "bloom_distribution") THEN bp.bloom_distribution ELSE <<>>
difficulty_mix(bp) ==
    IF HasConstraint(bp, "difficulty_mix") THEN bp.difficulty_mix ELSE <<>>

Keys(d) == { d[i][1] : i \in 1..Len(d) }

\* d.get(k, 0)
GetOr0(f, k) == IF k \in DOMAIN f THEN f[k] ELSE 0

-----------------------------------------------------------------------------
(* selector.py: pure helpers *)

RECURSIVE SumMarks(_)
\* sum(q.marks for q in qs)
SumMarks(qs) == IF qs = <<>> THEN 0 ELSE Head(qs).marks + SumMarks(Tail(qs))

\* list.remove applied to the element at position i
RemoveAt(s, i) == [j \in 1..(Len(s) - 1) |-> IF j < i THEN s[j] ELSE s[j + 1]]

\* the score of lines 303-317 times 100
Score(q, prefer_bloom, prefer_difficulty) ==
    (IF prefer_bloom # 0 /\ q.bloom_level = prefer_bloom THEN 1000 ELSE 0)
    + (IF prefer_difficulty # "" /\ q.difficulty = prefer_difficulty THEN 500 ELSE 0)
    + 3 * q.quality_score

\* the candidates left after the filters of lines 282-296
Matches(cands, already_selected, primary_co, unit_id, max_marks) ==
    { i \in 1..Len(cands) :
        /\ \A k \in 1..Len(already_selected) : already_selected[k].id # cands[i].id
        /\ (primary_co # "" => cands[i].primary_co = primary_co)
        /\ (unit_id # "" => cands[i].unit_id = unit_id)
        /\ (max_marks # 0 => cands[i].marks <= max_marks) }

\* _find_best_question: the stable descending sort puts first the earliest
\* candidate among those of the highest score
find_best_question(cands, already_selected, primary_co, unit_id, max_marks, prefer_bloom, prefer_difficulty) ==
    LET m == Matches(cands, already_selected, primary_co, unit_id, max_marks)
        sc(i) == Score(cands[i], prefer_bloom, prefer_difficulty)
    IN IF m = {} THEN 0
       ELSE CHOOSE i \in m : \A j \in m : sc(j) < sc(i) \/ (sc(j) = sc(i) /\ i <= j)

RECURSIVE UnderrepScan(_, _, _, _, _, _)
\* the loop of lines 347-353 (and 381-387) from position i on; deficits are
\* kept times 100 * total
UnderrepScan(dist, i, total, current, max_deficit, underrep) ==
    IF i > Len(dist) THEN underrep
    ELSE LET deficit == dist[i][2] * total - 100 * current[dist[i][1]]
         IN IF deficit > max_deficit
            THEN UnderrepScan(dist, i + 1, total, current, deficit, dist[i][1])
            ELSE UnderrepScan(dist, i + 1, total, current, max_deficit, underrep)

\* mutant: with nothing selected yet the current shares count as zero, so the
\* level of the largest target share is preferred
get_underrepresented_bloom_unguarded(sel, target_distribution) ==
    IF target_distribution = <<>> THEN 0
    ELSE LET total == IF sel = <<>> THEN 1 ELSE SumMarks(sel)
             current == [l \in Keys(target_distribution) |->
                           SumMarks(SelectSeq(sel, LAMBDA q : q.bloom_level = l))]
         IN UnderrepScan(target_distribution, 1, total, current, -100 * total, 0)

\* _get_underrepresented_bloom
get_underrepresented_bloom(sel, target_distribution) ==
    IF target_distribution = <<>> \/ sel = <<>> THEN 0
    ELSE LET total == SumMarks(sel)
             current == [l \in Keys(target_distribution) |->
                           SumMarks(SelectSeq(sel, LAMBDA q : q.bloom_level = l))]
         IN IF total = 0 THEN 0
            ELSE UnderrepScan(target_distribution, 1, total, current, -100 * total, 0)

\* _get_underrepresented_difficulty
get_underrepresented_difficulty(sel, target_mix) ==
    IF target_mix = <<>> \/ sel = <<>> THEN ""
    ELSE LET total == SumMarks(sel)
             current == [d \in Keys(target_mix) |->
                           SumMarks(SelectSeq(sel, LAMBDA q : q.difficulty = d))]
         IN IF total = 0 THEN ""
            ELSE UnderrepScan(target_mix, 1, total, current, -100 * total, "")

\* tolerance of the total-marks check
tolerance == 5

\* _verify_constraints with the tolerance of line 404, the CO check of lines
\* 408-419 and the unit check of lines 421-431 as parameters
VerifyWith(sel, bp, tol, co_checked, unit_checked) ==
    LET total_marks == SumMarks(sel)
        co_actual(co) == SumMarks(SelectSeq(sel, LAMBDA q : q.primary_co = co))
        unit_actual(u) == SumMarks(SelectSeq(sel, LAMBDA q : q.unit_id = u))
        names == (IF HasConstraint(bp, "marks_total") THEN {"total_marks"} ELSE {})
                 \cup (IF co_checked THEN {"co_coverage"} ELSE {})
                 \cup (IF unit_checked THEN {"unit_coverage"} ELSE {})
                 \cup {"bloom_distribution", "difficulty_mix"}
    IN [n \in names |->
          CASE n = "total_marks" -> Abs(total_marks - bp.marks_total) <= tol
            [] n = "co_coverage" ->
                 \A i \in 1..Len(bp.co_coverage) :
                     co_actual(bp.co_coverage[i][1]) >= bp.co_coverage[i][2]
            [] n = "unit_coverage" ->
                 \A i \in 1..Len(bp.unit_coverage) :
                     unit_actual(bp.unit_coverage[i][1]) >= bp.unit_coverage[i][2]
            [] OTHER -> TRUE]

\* mutant: the unit-coverage check is left out
verify_constraints_no_unit(sel, bp) ==
    VerifyWith(sel, bp, tolerance, HasConstraint(bp, "co_coverage"), FALSE)

\* mutant: the CO-coverage check is left out
verify_constraints_no_co(sel, bp) ==
    VerifyWith(sel, bp, tolerance, FALSE, HasConstraint(bp, "unit_coverage"))

\* mutant: the tolerance is twice as wide
verify_constraints_wide(sel, bp) ==
    VerifyWith(sel, bp, 2 * tolerance, HasConstraint(bp, "co_coverage"),
               HasConstraint(bp, "unit_coverage"))

\* mutant: the Bloom entry is true only when every level with a positive
\* target has a selected question
verify_constraints_bloom_checked(sel, bp) ==
    [VerifyWith(sel, bp, tolerance, HasConstraint(bp, "co_coverage"),
                HasConstraint(bp, "unit_coverage"))
       EXCEPT !["bloom_distribution"] =
          \A i \in 1..Len(bp.bloom_distribution) :
              bp.bloom_distribution[i][2] > 0 =>
                 \E k \in 1..Len(sel) : sel[k].bloom_level = bp.bloom_distribution[i][1]]

\* _verify_constraints
verify_constraints(sel, bp) ==
    VerifyWith(sel, bp, tolerance, HasConstraint(bp, "co_coverage"),
               HasConstraint(bp, "unit_coverage"))

\* all(constraints_satisfied.values())
AllSatisfied(cs) == \A n \in DOMAIN cs : cs[n]

SelectionResult(success, sel, total, cs, err) ==
    [success |-> success, selected_questions |-> sel, total_marks |-> total,
     constraints_satisfied |-> cs, error |-> err]

NoResult == SelectionResult(FALSE, <<>>, 0, <<>>, "pending")

\* QuestionBankDB.get_questions_by_filters: the questions of the rows whose
\* columns equal every filter
get_questions_by_filters(table, filters) ==
    SeqOfSet({ r.q : r \in { x \in table : \A c \in DOMAIN filters : x[c] = filters[c] } })

\* lines 151-154: the base filter
BaseFilters == [course_code |-> course_code, review_status |-> "accepted"]

\* faculty_id=faculty_id, **filters
FacultyFilters(fid) ==
    [course_code |-> course_code, review_status |-> "accepted", faculty_id |-> fid]

\* mutant: the faculty's questions are returned even when there are none
get_eligible_questions_no_fallback(table, fid) ==
    IF fid # "" THEN get_questions_by_filters(table, FacultyFilters(fid))
    ELSE get_questions_by_filters(table, BaseFilters)

\* _get_eligible_questions
get_eligible_questions(table, fid) ==
    IF fid # "" /\ get_questions_by_filters(table, FacultyFilters(fid)) # <<>>
    THEN get_questions_by_filters(table, FacultyFilters(fid))
    ELSE get_questions_by_filters(table, BaseFilters)

-----------------------------------------------------------------------------
(* selector.py: select_questions, one action per step *)

co_req == co_requirements(blueprint)
unit_req == unit_requirements(blueprint)

\* lines 59-79: validate the blueprint, then ask the table for the eligible
\* questions
SelectFetch ==
    /\ sel_pc = "fetch"
    /\ IF ~validate(blueprint)
       THEN sel_pc' = "raised" /\ UNCHANGED db_questions
       ELSE /\ sel_pc' = "start"
            /\ db_questions' = get_eligible_questions(bank, faculty_id)
    /\ UNCHANGED <<candidates, selected, remaining_marks, co_fulfilled,
                   unit_fulfilled, co_i, unit_i, result>>
    /\ UNCHANGED <<entry, blueprint, randomize, has_generator, min_from_bank>>
    /\ UNCHANGED <<callVars, jobVars, bankVars, genVars, orchVars>>

\* lines 59-102 and 187-197 with the tests of lines 81 and 194 as parameters
SelectStartIf(no_eligible, shuffle) ==
    /\ sel_pc = "start"
    /\ IF ~validate(blueprint)
       THEN /\ sel_pc' = "raised"
            /\ UNCHANGED <<candidates, selected, remaining_marks, co_fulfilled,
                           unit_fulfilled, co_i, unit_i, result>>
       ELSE IF no_eligible
       THEN /\ sel_pc' = "done"
            /\ result' = SelectionResult(FALSE, <<>>, 0, <<>>, "no_eligible_questions")
            /\ UNCHANGED <<candidates, selected, remaining_marks, co_fulfilled,
                           unit_fulfilled, co_i, unit_i>>
       ELSE /\ sel_pc' = "co"
            /\ selected' = <<>>
            /\ remaining_marks' = blueprint.marks_total
            /\ co_fulfilled' = [co \in Keys(co_req) |-> 0]
            /\ unit_fulfilled' = [u \in Keys(unit_req) |-> 0]
            /\ candidates' \in (IF shuffle THEN Shuffles(db_questions)
                                           ELSE {db_questions})
            /\ co_i' = 1
            /\ unit_i' = 1
            /\ UNCHANGED result
    /\ UNCHANGED <<outerVars, genVars, orchVars>>

\* mutant: the empty list of eligible questions is handed to the greedy pass
SelectStart_greedy_on_empty == SelectStartIf(FALSE, randomize)

\* mutant: the candidates are shuffled whatever randomize says
SelectStart_always_shuffle == SelectStartIf(db_questions = <<>>, TRUE)

\* lines 59-102 up to the start of phase 1: validate, fetch the eligible
\* questions, return at once when there are none, else set up the greedy pass
SelectStart == SelectStartIf(db_questions = <<>>, randomize)

\* the question the CO loop asks for (lines 205-210)
CoBest == find_best_question(candidates, selected, co_req[co_i][1], "",
                             remaining_marks, 0, "")

\* mutant: a question picked for a CO is not credited to its unit
CoPick_no_unit_credit ==
    /\ sel_pc = "co" /\ co_i <= Len(co_req)
    /\ co_fulfilled[co_req[co_i][1]] < co_req[co_i][2]
    /\ CoBest # 0
    /\ LET q == candidates[CoBest]
       IN /\ selected' = Append(selected, q)
          /\ candidates' = RemoveAt(candidates, CoBest)
          /\ remaining_marks' = remaining_marks - q.marks
          /\ co_fulfilled' = [co_fulfilled EXCEPT ![co_req[co_i][1]] = @ + q.marks]
    /\ UNCHANGED <<sel_pc, unit_fulfilled, co_i, unit_i, result>>
    /\ UNCHANGED <<outerVars, genVars, orchVars>>

\* lines 203-223: one iteration of the while loop that finds a question
CoPick ==
    /\ sel_pc = "co" /\ co_i <= Len(co_req)
    /\ co_fulfilled[co_req[co_i][1]] < co_req[co_i][2]
    /\ CoBest # 0
    /\ LET q == candidates[CoBest]
       IN /\ selected' = Append(selected, q)
          /\ candidates' = RemoveAt(candidates, CoBest)
          /\ remaining_marks' = remaining_marks - q.marks
          /\ co_fulfilled' = [co_fulfilled EXCEPT ![co_req[co_i][1]] = @ + q.marks]
          /\ unit_fulfilled' = IF q.unit_id \in DOMAIN unit_fulfilled
                               THEN [unit_fulfilled EXCEPT ![q.unit_id] = @ + q.marks]
                               ELSE unit_fulfilled
    /\ UNCHANGED <<sel_pc, co_i, unit_i, result>>
    /\ UNCHANGED <<outerVars, genVars, orchVars>>

\* mutant: a CO without a fitting question ends the whole selection
CoBreak_abort ==
    /\ sel_pc = "co" /\ co_i <= Len(co_req)
    /\ co_fulfilled[co_req[co_i][1]] < co_req[co_i][2]
    /\ CoBest = 0
    /\ sel_pc' = "return"
    /\ UNCHANGED <<candidates, selected, remaining_marks, co_fulfilled,
                   unit_fulfilled, co_i, unit_i, result>>
    /\ UNCHANGED <<outerVars, genVars, orchVars>>

\* lines 212-214: no question for this CO, break to the next CO
CoBreak ==
    /\ sel_pc = "co" /\ co_i <= Len(co_req)
    /\ co_fulfilled[co_req[co_i][1]] < co_req[co_i][2]
    /\ CoBest = 0
    /\ co_i' = co_i + 1
    /\ UNCHANGED <<sel_pc, candidates, selected, remaining_marks, co_fulfilled,
                   unit_fulfilled, unit_i, result>>
    /\ UNCHANGED <<outerVars, genVars, orchVars>>

\* line 203: the while condition fails, the for loop takes the next CO
CoMet ==
    /\ sel_pc = "co" /\ co_i <= Len(co_req)
    /\ co_fulfilled[co_req[co_i][1]] >= co_req[co_i][2]
    /\ co_i' = co_i + 1
    /\ UNCHANGED <<sel_pc, candidates, selected, remaining_marks, co_fulfilled,
                   unit_fulfilled, unit_i, result>>
    /\ UNCHANGED <<outerVars, genVars, orchVars>>

\* line 202 exhausted: on to the unit loop of line 226
CoLoopEnd ==
    /\ sel_pc = "co" /\ co_i > Len(co_req)
    /\ sel_pc' = "unit"
    /\ UNCHANGED <<candidates, selected, remaining_marks, co_fulfilled,
                   unit_fulfilled, co_i, unit_i, result>>
    /\ UNCHANGED <<outerVars, genVars, orchVars>>

\* the question the unit loop asks for (lines 228-233)
UnitBest == find_best_question(candidates, selected, "", unit_req[unit_i][1],
                               remaining_marks, 0, "")

\* lines 227-245: one iteration of the while loop that finds a question
UnitPick ==
    /\ sel_pc = "unit" /\ unit_i <= Len(unit_req)
    /\ GetOr0(unit_fulfilled, unit_req[unit_i][1]) < unit_req[unit_i][2]
    /\ UnitBest # 0
    /\ LET q == candidates[UnitBest]
       IN /\ selected' = Append(selected, q)
          /\ candidates' = RemoveAt(candidates, UnitBest)
          /\ remaining_marks' = remaining_marks - q.marks
          /\ co_fulfilled' = IF q.primary_co \in DOMAIN co_fulfilled
                             THEN [co_fulfilled EXCEPT ![q.primary_co] = @ + q.marks]
                             ELSE co_fulfilled
          /\ unit_fulfilled' =
                 [unit_fulfilled EXCEPT ![unit_req[unit_i][1]] = @ + q.marks]
    /\ UNCHANGED <<sel_pc, co_i, unit_i, result>>
    /\ UNCHANGED <<outerVars, genVars, orchVars>>

\* lines 235-237: no question for this unit, break to the next unit
UnitBreak ==
    /\ sel_pc = "unit" /\ unit_i <= Len(unit_req)
    /\ GetOr0(unit_fulfilled, unit_req[unit_i][1]) < unit_req[unit_i][2]
    /\ UnitBest = 0
    /\ unit_i' = unit_i + 1
    /\ UNCHANGED <<sel_pc, candidates, selected, remaining_marks, co_fulfilled,
                   unit_fulfilled, co_i, result>>
    /\ UNCHANGED <<outerVars, genVars, orchVars>>

\* line 227: the while condition fails, the for loop takes the next unit
UnitMet ==
    /\ sel_pc = "unit" /\ unit_i <= Len(unit_req)
    /\ GetOr0(unit_fulfilled, unit_req[unit_i][1]) >= unit_req[unit_i][2]
    /\ unit_i' = unit_i + 1
    /\ UNCHANGED <<sel_pc, candidates, selected, remaining_marks, co_fulfilled,
                   unit_fulfilled, co_i, result>>
    /\ UNCHANGED <<outerVars, genVars, orchVars>>

\* line 226 exhausted: on to phase 2
UnitLoopEnd ==
    /\ sel_pc = "unit" /\ unit_i > Len(unit_req)
    /\ sel_pc' = "fill"
    /\ UNCHANGED <<candidates, selected, remaining_marks, co_fulfilled,
                   unit_fulfilled, co_i, unit_i, result>>
    /\ UNCHANGED <<outerVars, genVars, orchVars>>

\* the question phase 2 asks for (lines 252-258)
FillBest ==
    find_best_question(candidates, selected, "", "", remaining_marks,
        get_underrepresented_bloom(selected, bloom_distribution(blueprint)),
        get_underrepresented_difficulty(selected, difficulty_mix(blueprint)))

\* lines 250-265: one iteration of the fill loop that finds a question
FillPick ==
    /\ sel_pc = "fill"
    /\ remaining_marks > 0 /\ candidates # <<>>
    /\ FillBest # 0
    /\ LET q == candidates[FillBest]
       IN /\ selected' = Append(selected, q)
          /\ candidates' = RemoveAt(candidates, FillBest)
          /\ remaining_marks' = remaining_marks - q.marks
    /\ UNCHANGED <<sel_pc, co_fulfilled, unit_fulfilled, co_i, unit_i, result>>
    /\ UNCHANGED <<outerVars, genVars, orchVars>>

\* lines 250 and 260-261: the fill loop ends; line 267 returns selected
FillStop ==
    /\ sel_pc = "fill"
    /\ ~(remaining_marks > 0 /\ candidates # <<>>) \/ FillBest = 0
    /\ sel_pc' = "return"
    /\ UNCHANGED <<candidates, selected, remaining_marks, co_fulfilled,
                   unit_fulfilled, co_i, unit_i, result>>
    /\ UNCHANGED <<outerVars, genVars, orchVars>>

\* lines 104-141: build the SelectionResult
SelectReturn ==
    /\ sel_pc = "return"
    /\ sel_pc' = "done"
    /\ result' =
          IF selected = <<>>
          THEN SelectionResult(FALSE, <<>>, 0, <<>>, "constraint_satisfaction_failed")
          ELSE LET cs == verify_constraints(selected, blueprint)
               IN SelectionResult(AllSatisfied(cs), selected, SumMarks(selected), cs, "")
    /\ UNCHANGED <<candidates, selected, remaining_marks, co_fulfilled,
                   unit_fulfilled, co_i, unit_i>>
    /\ UNCHANGED <<outerVars, genVars, orchVars>>

-----------------------------------------------------------------------------
(* generator.py: pure helpers *)

\* STANDARD_MARKS of line 134
STANDARD_MARKS == <<2, 5, 10, 16>>

Min(a, b) == IF a < b THEN a ELSE b

RECURSIVE choose_marks_min2(_, _, _, _)
\* mutant: the fallback is 2 marks whatever is available
choose_marks_min2(needed, available, standard, k) ==
    IF k = 0 THEN 2
    ELSE IF standard[k] <= needed /\ standard[k] <= available THEN standard[k]
    ELSE choose_marks_min2(needed, available, standard, k - 1)

RECURSIVE choose_marks_from(_, _, _, _)
\* the loop of lines 211-213 from position k of the list downwards
choose_marks_from(needed, available, standard, k) ==
    IF k = 0 THEN Min(2, available)
    ELSE IF standard[k] <= needed /\ standard[k] <= available THEN standard[k]
    ELSE choose_marks_from(needed, available, standard, k - 1)

\* mutant: the list is walked upwards, so the smallest fitting value wins
choose_marks_smallest(needed, available, standard) ==
    LET fit == { k \in 1..Len(standard) :
                   standard[k] <= needed /\ standard[k] <= available }
    IN IF fit = {} THEN Min(2, available)
       ELSE standard[CHOOSE k \in fit : \A j \in fit : k <= j]

\* _choose_marks
choose_marks(needed, available, standard) ==
    choose_marks_from(needed, available, standard, Len(standard))

\* _choose_bloom_level: the levels random.choices can return
choose_bloom_level(distribution) ==
    IF distribution = <<>> THEN {2}
    ELSE { distribution[i][1] : i \in { j \in 1..Len(distribution) : distribution[j][2] > 0 } }

\* _choose_difficulty: the difficulties random.choices can return
choose_difficulty(mix) ==
    IF mix = <<>> THEN {"medium"}
    ELSE { mix[i][1] : i \in { j \in 1..Len(mix) : mix[j][2] > 0 } }

\* int(co_id.replace('CO', ''))
CoNum(co_id) ==
    CASE co_id = "CO1" -> 1 [] co_id = "CO2" -> 2 [] co_id = "CO3" -> 3
      [] co_id = "CO4" -> 4 [] co_id = "CO5" -> 5

\* int(unit_id.replace('unit_', ''))
UnitNum(unit_id) ==
    CASE unit_id = "unit_1" -> 1 [] unit_id = "unit_2" -> 2 [] unit_id = "unit_3" -> 3
      [] unit_id = "unit_4" -> 4 [] unit_id = "unit_5" -> 5

\* _map_co_to_unit
map_co_to_unit(co_id) == <<"unit_1", "unit_2", "unit_3", "unit_4", "unit_5">>[Min(CoNum(co_id), 5)]

\* _map_unit_to_co
map_unit_to_co(unit_id) == <<"CO1", "CO2", "CO3", "CO4", "CO5">>[Min(UnitNum(unit_id), 5)]

RECURSIVE SortedItems(_, _)
\* sorted(d.items()) for a dict d whose keys the function num puts in string order
SortedItems(d, num) ==
    IF d = <<>> THEN <<>>
    ELSE LET i == CHOOSE k \in 1..Len(d) : \A j \in 1..Len(d) : num[d[k][1]] <= num[d[j][1]]
         IN <<d[i]>> \o SortedItems(RemoveAt(d, i), num)

ItemSpec(unit_id, co_id, bloom_level, difficulty, marks) ==
    [unit_id |-> unit_id, co_id |-> co_id, bloom_level |-> bloom_level,
     difficulty |-> difficulty, marks |-> marks]

RECURSIVE PlanMarks(_)
\* sum(q['marks'] for q in plan)
PlanMarks(pl) == IF pl = <<>> THEN 0 ELSE Head(pl).marks + PlanMarks(Tail(pl))

\* line 168: sum(q['marks'] for q in plan if q['unit_id'] == unit_id)
UnitAllocated(pl, unit_id) == PlanMarks(SelectSeq(pl, LAMBDA q : q.unit_id = unit_id))

-----------------------------------------------------------------------------
(* generator.py: generate_paper_questions, one action per step *)

plan_co_req == SortedItems(co_requirements(blueprint), [c \in Keys(co_requirements(blueprint)) |-> CoNum(c)])
plan_unit_req == SortedItems(unit_requirements(blueprint), [u \in Keys(unit_requirements(blueprint)) |-> UnitNum(u)])

\* the id add_question hands out to the first generated question: the table's
\* autoincrement key, past every id of the bank
FirstFreshId == 1 + Cardinality(Catalog)

\* lines 49-76 and 130-134: validate, then start building the plan
GenerateStart ==
    /\ gen_pc = "start"
    /\ IF ~validate(blueprint)
       THEN /\ gen_pc' = "raised"
            /\ UNCHANGED <<plan, plan_remaining, plan_i, allocated>>
       ELSE /\ gen_pc' = "plan_co"
            /\ plan' = <<>>
            /\ plan_remaining' = blueprint.marks_total
            /\ plan_i' = 1
            /\ allocated' = 0
    /\ UNCHANGED <<question_ids, gen_i, calls, db_generated>>
    /\ UNCHANGED <<outerVars, selVars, orchVars>>

\* lines 140-162: one iteration of the while loop of phase 1
PlanCoSpec ==
    /\ gen_pc = "plan_co" /\ plan_i <= Len(plan_co_req)
    /\ allocated < plan_co_req[plan_i][2] /\ plan_remaining > 0
    /\ LET co_id == plan_co_req[plan_i][1]
           marks == choose_marks(plan_co_req[plan_i][2] - allocated, plan_remaining,
                                 STANDARD_MARKS)
       IN /\ \E bloom_level \in choose_bloom_level(bloom_distribution(blueprint)) :
             \E difficulty \in choose_difficulty(difficulty_mix(blueprint)) :
               plan' = Append(plan, ItemSpec(map_co_to_unit(co_id), co_id, bloom_level,
                                             difficulty, marks))
          /\ allocated' = allocated + marks
          /\ plan_remaining' = plan_remaining - marks
    /\ UNCHANGED <<gen_pc, plan_i, question_ids, gen_i, calls, db_generated>>
    /\ UNCHANGED <<outerVars, selVars, orchVars>>

\* lines 137-140: the while condition fails, the for loop takes the next CO
\* (marks_allocated = 0) or, after the last CO, phase 2 begins
PlanCoNext ==
    /\ gen_pc = "plan_co" /\ plan_i <= Len(plan_co_req)
    /\ ~(allocated < plan_co_req[plan_i][2] /\ plan_remaining > 0)
    /\ plan_i' = plan_i + 1
    /\ allocated' = 0
    /\ UNCHANGED <<gen_pc, plan, plan_remaining, question_ids, gen_i, calls, db_generated>>
    /\ UNCHANGED <<outerVars, selVars, orchVars>>

\* lines 164-168: phase 1 is over; phase 2 starts with the first unit
PlanCoEnd ==
    /\ gen_pc = "plan_co" /\ plan_i > Len(plan_co_req)
    /\ gen_pc' = "plan_unit"
    /\ plan_i' = 1
    /\ allocated' = IF plan_unit_req = <<>> THEN 0
                    ELSE UnitAllocated(plan, plan_unit_req[1][1])
    /\ UNCHANGED <<plan, plan_remaining, question_ids, gen_i, calls, db_generated>>
    /\ UNCHANGED <<outerVars, selVars, orchVars>>

\* lines 170-185: one iteration of the while loop of phase 2
PlanUnitSpec ==
    /\ gen_pc = "plan_unit" /\ plan_i <= Len(plan_unit_req)
    /\ allocated < plan_unit_req[plan_i][2] /\ plan_remaining > 0
    /\ LET unit_id == plan_unit_req[plan_i][1]
           marks == choose_marks(plan_unit_req[plan_i][2] - allocated, plan_remaining,
                                 STANDARD_MARKS)
       IN /\ \E bloom_level \in choose_bloom_level(bloom_distribution(blueprint)) :
             \E difficulty \in choose_difficulty(difficulty_mix(blueprint)) :
               plan' = Append(plan, ItemSpec(unit_id, map_unit_to_co(unit_id), bloom_level,
                                             difficulty, marks))
          /\ allocated' = allocated + marks
          /\ plan_remaining' = plan_remaining - marks
    /\ UNCHANGED <<gen_pc, plan_i, question_ids, gen_i, calls, db_generated>>
    /\ UNCHANGED <<outerVars, selVars, orchVars>>

\* lines 166-170: the while condition fails, the for loop takes the next unit
PlanUnitNext ==
    /\ gen_pc = "plan_unit" /\ plan_i <= Len(plan_unit_req)
    /\ ~(allocated < plan_unit_req[plan_i][2] /\ plan_remaining > 0)
    /\ plan_i' = plan_i + 1
    /\ allocated' = IF plan_i + 1 <= Len(plan_unit_req)
                    THEN UnitAllocated(plan, plan_unit_req[plan_i + 1][1])
                    ELSE 0
    /\ UNCHANGED <<gen_pc, plan, plan_remaining, question_ids, gen_i, calls, db_generated>>
    /\ UNCHANGED <<outerVars, selVars, orchVars>>

\* line 187: phase 2 is over
PlanUnitEnd ==
    /\ gen_pc = "plan_unit" /\ plan_i > Len(plan_unit_req)
    /\ gen_pc' = "plan_fill"
    /\ UNCHANGED <<plan, plan_remaining, plan_i, allocated, question_ids, gen_i, calls,
                   db_generated>>
    /\ UNCHANGED <<outerVars, selVars, orchVars>>

\* lines 188-205: one iteration of phase 3 with a CO to cycle over
PlanFillSpec ==
    /\ gen_pc = "plan_fill" /\ plan_remaining > 0
    /\ co_requirements(blueprint) # <<>>
    /\ LET cr == co_requirements(blueprint)
           marks == choose_marks(plan_remaining, plan_remaining, STANDARD_MARKS)
           co_id == cr[(Len(plan) % Len(cr)) + 1][1]
       IN /\ \E bloom_level \in choose_bloom_level(bloom_distribution(blueprint)) :
             \E difficulty \in choose_difficulty(difficulty_mix(blueprint)) :
               plan' = Append(plan, ItemSpec(map_co_to_unit(co_id), co_id, bloom_level,
                                             difficulty, marks))
          /\ plan_remaining' = plan_remaining - marks
    /\ UNCHANGED <<gen_pc, plan_i, allocated, question_ids, gen_i, calls, db_generated>>
    /\ UNCHANGED <<outerVars, selVars, orchVars>>

\* line 194 with no CO requirement: len(plan) % 0 raises ZeroDivisionError,
\* which nothing in generate_paper_questions catches
PlanFillRaise ==
    /\ gen_pc = "plan_fill" /\ plan_remaining > 0
    /\ co_requirements(blueprint) = <<>>
    /\ gen_pc' = "raised"
    /\ UNCHANGED <<plan, plan_remaining, plan_i, allocated, question_ids, gen_i, calls,
                   db_generated>>
    /\ UNCHANGED <<outerVars, selVars, orchVars>>

\* lines 207 and 76-79: the plan is returned, the production loop begins
PlanReturn ==
    /\ gen_pc = "plan_fill" /\ plan_remaining <= 0
    /\ gen_pc' = "produce"
    /\ question_ids' = <<>>
    /\ gen_i' = 1
    /\ UNCHANGED <<plan, plan_remaining, plan_i, allocated, calls, db_generated>>
    /\ UNCHANGED <<outerVars, selVars, orchVars>>

\* mutant: every generated question is stored under the same id
ProduceOk_same_id ==
    /\ gen_pc = "produce" /\ gen_i <= Len(plan)
    /\ LET spec == plan[gen_i]
           id == FirstFreshId
       IN /\ question_ids' = Append(question_ids, id)
          /\ db_generated' = Append(db_generated,
                 Question(id, spec.co_id, spec.unit_id, spec.bloom_level,
                          spec.difficulty, spec.marks, 80))
    /\ calls' = Append(calls, "ok")
    /\ gen_i' = gen_i + 1
    /\ UNCHANGED <<gen_pc, plan, plan_remaining, plan_i, allocated>>
    /\ UNCHANGED <<outerVars, selVars, orchVars>>

\* lines 85-101: the question is generated, its marks are overwritten with the
\* spec's, its id is appended
ProduceOk ==
    /\ gen_pc = "produce" /\ gen_i <= Len(plan)
    /\ LET spec == plan[gen_i]
           id == FirstFreshId + Len(calls)
       IN /\ question_ids' = Append(question_ids, id)
          /\ db_generated' = Append(db_generated,
                 Question(id, spec.co_id, spec.unit_id, spec.bloom_level,
                          spec.difficulty, spec.marks, 80))
    /\ calls' = Append(calls, "ok")
    /\ gen_i' = gen_i + 1
    /\ UNCHANGED <<gen_pc, plan, plan_remaining, plan_i, allocated>>
    /\ UNCHANGED <<outerVars, selVars, orchVars>>

\* mutant: a failed call ends the loop (break for continue)
ProduceFail_break ==
    /\ gen_pc = "produce" /\ gen_i <= Len(plan)
    /\ calls' = Append(calls, "failed")
    /\ gen_i' = Len(plan) + 1
    /\ UNCHANGED <<gen_pc, plan, plan_remaining, plan_i, allocated, question_ids,
                   db_generated>>
    /\ UNCHANGED <<outerVars, selVars, orchVars>>

\* lines 103-105: generate_question or update_question raised; the loop
\* continues with the next spec
ProduceFail ==
    /\ gen_pc = "produce" /\ gen_i <= Len(plan)
    /\ calls' = Append(calls, "failed")
    /\ gen_i' = gen_i + 1
    /\ UNCHANGED <<gen_pc, plan, plan_remaining, plan_i, allocated, question_ids,
                   db_generated>>
    /\ UNCHANGED <<outerVars, selVars, orchVars>>

\* lines 107-111: return question_ids
GenerateReturn ==
    /\ gen_pc = "produce" /\ gen_i > Len(plan)
    /\ gen_pc' = "done"
    /\ UNCHANGED <<plan, plan_remaining, plan_i, allocated, question_ids, gen_i, calls,
                   db_generated>>
    /\ UNCHANGED <<outerVars, selVars, orchVars>>

GenInitState ==
    /\ plan = <<>>
    /\ plan_remaining = 0
    /\ plan_i = 1
    /\ allocated = 0
    /\ question_ids = <<>>
    /\ gen_i = 1
    /\ calls = <<>>
    /\ db_generated = <<>>

-----------------------------------------------------------------------------
(* orchestrator.py *)

\* default of generate_paper_hybrid's min_from_bank
DefaultMinFromBank == 3

Ids(qs) == [i \in 1..Len(qs) |-> qs[i].id]

\* coverage[k] = coverage.get(k, 0) + n
AddTo(coverage, k, n) ==
    [x \in DOMAIN coverage \cup {k} |-> GetOr0(coverage, x) + (IF x = k THEN n ELSE 0)]

RECURSIVE calculate_co_coverage(_)
\* _calculate_co_coverage
calculate_co_coverage(questions) ==
    IF questions = <<>> THEN <<>>
    ELSE LET q == questions[Len(questions)]
         IN AddTo(calculate_co_coverage(SubSeq(questions, 1, Len(questions) - 1)),
                  q.primary_co, q.marks)

RECURSIVE calculate_bloom_distribution_count(_)
\* mutant: each question counts 1, not its marks
calculate_bloom_distribution_count(questions) ==
    IF questions = <<>> THEN <<>>
    ELSE LET q == questions[Len(questions)]
         IN AddTo(calculate_bloom_distribution_count(SubSeq(questions, 1, Len(questions) - 1)),
                  q.bloom_level, 1)

RECURSIVE calculate_bloom_distribution(_)
\* _calculate_bloom_distribution
calculate_bloom_distribution(questions) ==
    IF questions = <<>> THEN <<>>
    ELSE LET q == questions[Len(questions)]
         IN AddTo(calculate_bloom_distribution(SubSeq(questions, 1, Len(questions) - 1)),
                  q.bloom_level, q.marks)

RECURSIVE AddOutcomes(_, _, _)
\* the inner loop of _calculate_po_coverage (lines 277-278)
AddOutcomes(coverage, pos, marks) ==
    IF pos = <<>> THEN coverage
    ELSE AddOutcomes(AddTo(coverage, Head(pos), marks), Tail(pos), marks)

RECURSIVE calculate_po_coverage(_)
\* _calculate_po_coverage
calculate_po_coverage(questions) ==
    IF questions = <<>> THEN <<>>
    ELSE LET q == questions[Len(questions)]
         IN AddOutcomes(calculate_po_coverage(SubSeq(questions, 1, Len(questions) - 1)),
                        q.program_outcomes, q.marks)

\* the row _save_paper_to_db and _save_paper_to_db_by_ids store for the ids
\* and the question rows they stand for
Paper(bp, ids, questions) ==
    [question_ids |-> ids, status |-> "finalized", total_marks |-> bp.marks_total,
     co_coverage |-> calculate_co_coverage(questions),
     bloom_distribution |-> calculate_bloom_distribution(questions),
     po_coverage |-> calculate_po_coverage(questions)]

\* lines 69-74, 112-120, 157-165: the entry of the three modes up to the first
\* call into the selector or the generator
OrchStart ==
    /\ orch_pc = "start"
    /\ IF entry = "bank"
       THEN /\ orch_pc' = "selecting" /\ sel_pc' = "start" /\ UNCHANGED gen_pc
       ELSE IF ~has_generator
       THEN /\ orch_pc' = "raised" /\ UNCHANGED <<sel_pc, gen_pc>>
       ELSE IF entry = "fresh"
       THEN /\ orch_pc' = "generating" /\ gen_pc' = "start" /\ UNCHANGED sel_pc
       ELSE /\ orch_pc' = "selecting" /\ sel_pc' = "start" /\ UNCHANGED gen_pc
    /\ orch_ret' = IF entry # "bank" /\ ~has_generator THEN "raised" ELSE orch_ret
    /\ UNCHANGED <<candidates, selected, remaining_marks, co_fulfilled,
                   unit_fulfilled, co_i, unit_i, result>>
    /\ UNCHANGED <<plan, plan_remaining, plan_i, allocated, question_ids, gen_i, calls,
                   db_generated>>
    /\ UNCHANGED <<bank_questions, papers, rendered, outerVars>>

\* an exception of select_questions or generate_paper_questions leaves the
\* orchestrator call: no handler in orchestrator.py catches it
OrchRaise ==
    /\ \/ orch_pc = "selecting" /\ sel_pc = "raised"
       \/ orch_pc = "generating" /\ gen_pc = "raised"
    /\ orch_pc' = "raised"
    /\ orch_ret' = "raised"
    /\ UNCHANGED <<bank_questions, papers, rendered, outerVars, selVars, genVars>>

\* generate_paper_from_bank lines 76-82 with the test of line 76 as parameter
BankSelectedIf(abort) ==
    /\ entry = "bank" /\ orch_pc = "selecting" /\ sel_pc = "done"
    /\ IF abort
       THEN /\ orch_pc' = "done"
            /\ orch_ret' = "None"
            /\ UNCHANGED papers
       ELSE /\ orch_pc' = "saved"
            /\ papers' = Append(papers, Paper(blueprint, Ids(result.selected_questions), result.selected_questions))
            /\ UNCHANGED orch_ret
    /\ UNCHANGED <<bank_questions, rendered, outerVars, selVars, genVars>>

\* mutant: only an empty selection aborts
BankSelected_abort_on_empty == BankSelectedIf(result.selected_questions = <<>>)

\* generate_paper_from_bank lines 76-82: None unless result.success, else the
\* paper is saved
BankSelected == BankSelectedIf(~result.success)

\* mutant: the paper is saved before the generated ids are tested
FreshGenerated_save_first ==
    /\ entry = "fresh" /\ orch_pc = "generating" /\ gen_pc = "done"
    /\ papers' = Append(papers, Paper(blueprint, question_ids, db_generated))
    /\ IF question_ids = <<>>
       THEN orch_pc' = "done" /\ orch_ret' = "None"
       ELSE orch_pc' = "saved" /\ UNCHANGED orch_ret
    /\ UNCHANGED <<bank_questions, rendered, outerVars, selVars, genVars>>

\* generate_paper_fresh lines 122-127: None when no question was generated,
\* else the paper is saved
FreshGenerated ==
    /\ entry = "fresh" /\ orch_pc = "generating" /\ gen_pc = "done"
    /\ IF question_ids = <<>>
       THEN /\ orch_pc' = "done"
            /\ orch_ret' = "None"
            /\ UNCHANGED papers
       ELSE /\ orch_pc' = "saved"
            /\ papers' = Append(papers, Paper(blueprint, question_ids, db_generated))
            /\ UNCHANGED orch_ret
    /\ UNCHANGED <<bank_questions, rendered, outerVars, selVars, genVars>>

\* mutant: the marks of the bank questions are not subtracted
hybrid_remaining_marks_full(bp, bq) == bp.marks_total

\* generate_paper_hybrid lines 175-178: remaining_marks
hybrid_remaining_marks(bp, bq) == bp.marks_total - SumMarks(bq)

\* generate_paper_hybrid lines 167-192 with the test of line 168 as parameter
HybridSelectedIf(keep) ==
    /\ entry = "hybrid" /\ orch_pc = "selecting" /\ sel_pc = "done"
    /\ LET bq == IF keep
                 THEN result.selected_questions
                 ELSE <<>>
           remaining == hybrid_remaining_marks(blueprint, bq)
       IN /\ bank_questions' = bq
          /\ IF remaining > 0
             THEN orch_pc' = "generating" /\ gen_pc' = "start"
             ELSE orch_pc' = "combine" /\ UNCHANGED gen_pc
    /\ UNCHANGED <<plan, plan_remaining, plan_i, allocated, question_ids, gen_i, calls,
                   db_generated>>
    /\ UNCHANGED <<papers, rendered, orch_ret, outerVars, selVars>>

\* mutant: the success flag is not looked at
HybridSelected_count_only ==
    HybridSelectedIf(Len(result.selected_questions) >= min_from_bank)

\* mutant: the number of selected questions is not looked at
HybridSelected_success_only == HybridSelectedIf(result.success)

\* generate_paper_hybrid lines 167-192: keep or drop the bank questions, then
\* generate for the full blueprint when marks remain
HybridSelected ==
    HybridSelectedIf(result.success /\ Len(result.selected_questions) >= min_from_bank)

\* generate_paper_hybrid lines 194-198: combine the ids and save the paper
HybridSave ==
    /\ entry = "hybrid"
    /\ orch_pc = "combine" \/ (orch_pc = "generating" /\ gen_pc = "done")
    /\ orch_pc' = "saved"
    /\ papers' = Append(papers, Paper(blueprint, Ids(bank_questions) \o question_ids,
                               bank_questions \o db_generated))
    /\ UNCHANGED <<bank_questions, rendered, orch_ret, outerVars, selVars, genVars>>

\* lines 84-93, 129-136, 200-208: generate_pdf on the saved ids, return the path
OrchRender ==
    /\ orch_pc = "saved"
    /\ orch_pc' = "done"
    /\ rendered' = Append(rendered, papers[Len(papers)].question_ids)
    /\ orch_ret' = "path"
    /\ UNCHANGED <<bank_questions, papers, outerVars, selVars, genVars>>

-----------------------------------------------------------------------------
(* async_generator.py: the job queue.  Every action is one read-then-write   *)
(* step of one thread; the interpreter may switch threads between any two.   *)

\* the threads that call into the module
Threads == {"t1", "t2"}

\* each calling thread can construct at most one JobQueue (get_job_queue)
MaxQueues == Cardinality(Threads)

\* a calling thread between two calls; queue is the JobQueue it holds, 0 for none
IdleThread(queue) ==
    [pc |-> "idle", queue |-> queue, target |-> 0, job |-> 0, in_get |-> FALSE]

Job(queue) == [queue |-> queue, status |-> "pending", executions |-> 0]

\* a worker thread at the top of _worker_loop; size is the length of the jobs
\* dict when the iterator of line 153 was created, 0 outside the comprehension
Worker(queue) == [queue |-> queue, pc |-> "loop", job |-> 0, size |-> 0]

\* the threads that have passed the test of line 85 and are about to spawn
Spawning == { t \in Threads : threads[t].pc = "sw_set" }

paperVars == <<inputVars, callVars, bankVars, selVars, genVars, orchVars>>

\* get_job_queue line 315: the test `_job_queue is None`
GetJobQueueTest(t) ==
    /\ threads[t].pc = "idle"
    /\ threads' = [threads EXCEPT ![t].in_get = TRUE,
                                  ![t].pc = IF job_queue = 0 THEN "gq_create"
                                                             ELSE "gq_return"]
    /\ UNCHANGED <<job_queue, n_queues, running, worker_thread, jobs, workers,
                   cancel_true, paperVars>>

\* get_job_queue line 316: `_job_queue = JobQueue()`
GetJobQueueCreate(t) ==
    /\ threads[t].pc = "gq_create"
    /\ n_queues' = n_queues + 1
    /\ job_queue' = n_queues + 1
    /\ threads' = [threads EXCEPT ![t].pc = "gq_start"]
    /\ UNCHANGED <<running, worker_thread, jobs, workers, cancel_true, paperVars>>

\* get_job_queue line 317 into start_worker line 85: the test `not self.running`
\* on the object _job_queue names now
GetJobQueueStart(t) ==
    /\ threads[t].pc = "gq_start"
    /\ running[job_queue] \/ Len(workers) + Cardinality(Spawning) < MaxWorkers
    /\ threads' = [threads EXCEPT ![t].target = job_queue,
                                  ![t].pc = IF running[job_queue] THEN "gq_return"
                                                                  ELSE "sw_set"]
    /\ UNCHANGED <<job_queue, n_queues, running, worker_thread, jobs, workers,
                   cancel_true, paperVars>>

\* get_job_queue line 319: `return _job_queue`
GetJobQueueReturn(t) ==
    /\ threads[t].pc = "gq_return"
    /\ threads' = [threads EXCEPT ![t] = IdleThread(job_queue)]
    /\ UNCHANGED <<job_queue, n_queues, running, worker_thread, jobs, workers,
                   cancel_true, paperVars>>

\* start_worker line 85, called on the queue the thread holds
StartWorkerTest(t) ==
    /\ threads[t].pc = "idle" /\ threads[t].queue # 0
    /\ running[threads[t].queue] \/ Len(workers) + Cardinality(Spawning) < MaxWorkers
    /\ threads' = [threads EXCEPT ![t].target = threads[t].queue,
                                  ![t].pc = IF running[threads[t].queue] THEN "idle"
                                                                         ELSE "sw_set"]
    /\ UNCHANGED <<job_queue, n_queues, running, worker_thread, jobs, workers,
                   cancel_true, paperVars>>

\* start_worker lines 86-88: set running, create and start the worker thread
StartWorkerSpawn(t) ==
    /\ threads[t].pc = "sw_set"
    /\ running' = [running EXCEPT ![threads[t].target] = TRUE]
    /\ workers' = Append(workers, Worker(threads[t].target))
    /\ worker_thread' = [worker_thread EXCEPT ![threads[t].target] = Len(workers) + 1]
    /\ threads' = [threads EXCEPT ![t].target = 0,
                                  ![t].pc = IF threads[t].in_get THEN "gq_return"
                                                                 ELSE "idle"]
    /\ UNCHANGED <<job_queue, n_queues, jobs, cancel_true, paperVars>>

\* stop_worker line 93: `self.running = False`
StopWorkerClear(t) ==
    /\ threads[t].pc = "idle" /\ threads[t].queue # 0
    /\ running' = [running EXCEPT ![threads[t].queue] = FALSE]
    /\ threads' = [threads EXCEPT ![t].target = threads[t].queue,
                                  ![t].pc = IF worker_thread[threads[t].queue] = 0
                                            THEN "idle" ELSE "joining"]
    /\ UNCHANGED <<job_queue, n_queues, worker_thread, jobs, workers, cancel_true,
                   paperVars>>

\* stop_worker line 95: join(timeout=5) returns when the worker thread has
\* ended, or after five seconds while the worker is inside a job body
StopWorkerJoin(t) ==
    /\ threads[t].pc = "joining"
    /\ workers[worker_thread[threads[t].target]].pc \in {"exited", "picked", "executing"}
    /\ threads' = [threads EXCEPT ![t].target = 0, ![t].pc = "idle"]
    /\ UNCHANGED <<job_queue, n_queues, running, worker_thread, jobs, workers,
                   cancel_true, paperVars>>

\* submit_job lines 114-127
SubmitJob(t) ==
    /\ threads[t].pc = "idle" /\ threads[t].queue # 0
    /\ Len(jobs) < MaxJobs
    /\ jobs' = Append(jobs, Job(threads[t].queue))
    /\ UNCHANGED <<job_queue, n_queues, running, worker_thread, workers, threads,
                   cancel_true, paperVars>>

\* cancel_job lines 139-141 and 145: look the job up and test its status;
\* return False unless it is PENDING
CancelJobTest(t, j) ==
    /\ threads[t].pc = "idle" /\ threads[t].queue # 0
    /\ jobs[j].queue = threads[t].queue
    /\ threads' = [threads EXCEPT ![t].job = IF jobs[j].status = "pending" THEN j ELSE 0,
                                  ![t].pc = IF jobs[j].status = "pending"
                                            THEN "cancel_set" ELSE "idle"]
    /\ UNCHANGED <<job_queue, n_queues, running, worker_thread, jobs, workers,
                   cancel_true, paperVars>>

\* cancel_job lines 142-143: `job.status = JobStatus.CANCELLED`, return True
CancelJobSet(t) ==
    /\ threads[t].pc = "cancel_set"
    /\ jobs' = [jobs EXCEPT ![threads[t].job].status = "cancelled"]
    /\ cancel_true' = cancel_true \cup {threads[t].job}
    /\ threads' = [threads EXCEPT ![t].job = 0, ![t].pc = "idle"]
    /\ UNCHANGED <<job_queue, n_queues, running, worker_thread, workers, paperVars>>

\* the PENDING jobs of a queue, as positions in creation order (lines 152-155)
pending_jobs(q) == { j \in 1..Len(jobs) : jobs[j].queue = q /\ jobs[j].status = "pending" }

\* _worker_loop line 150: the test `while self.running`
WorkerLoopTest(w) ==
    /\ workers[w].pc = "loop"
    /\ workers' = [workers EXCEPT ![w].pc = IF running[workers[w].queue] THEN "scan"
                                                                         ELSE "exited"]
    /\ UNCHANGED <<job_queue, n_queues, running, worker_thread, jobs, threads,
                   cancel_true, paperVars>>

\* _worker_loop lines 152-161: take the first PENDING job, or sleep a second
WorkerScan(w) ==
    /\ workers[w].pc = "scan"
    /\ LET pending == pending_jobs(workers[w].queue)
       IN workers' =
            IF pending = {} THEN [workers EXCEPT ![w].pc = "loop"]
            ELSE [workers EXCEPT ![w].pc = "picked",
                                 ![w].job = CHOOSE j \in pending : \A k \in pending : j <= k]
    /\ UNCHANGED <<job_queue, n_queues, running, worker_thread, jobs, threads,
                   cancel_true, paperVars>>

\* len(self.jobs) of a queue
QueueSize(q) == Cardinality({ j \in 1..Len(jobs) : jobs[j].queue = q })

\* _worker_loop line 153: the comprehension creates the iterator over
\* self.jobs.values(); other threads may run before it is exhausted
WorkerScanBegin(w) ==
    /\ workers[w].pc = "scan"
    /\ workers' = [workers EXCEPT ![w].pc = "iterating",
                                  ![w].size = QueueSize(workers[w].queue)]
    /\ UNCHANGED <<job_queue, n_queues, running, worker_thread, jobs, threads,
                   cancel_true, paperVars>>

\* _worker_loop lines 152-161: the comprehension ends.  When submit_job has
\* inserted into the dict meanwhile the iterator raises RuntimeError
\* (dictionary changed size during iteration), which nothing in _worker_loop
\* catches: the thread ends and self.running stays True.  Otherwise the first
\* PENDING job is taken, or the thread sleeps a second.
WorkerScanEnd(w) ==
    /\ workers[w].pc = "iterating"
    /\ LET pending == pending_jobs(workers[w].queue)
       IN workers' =
            IF QueueSize(workers[w].queue) # workers[w].size
            THEN [workers EXCEPT ![w].pc = "crashed", ![w].size = 0]
            ELSE IF pending = {} THEN [workers EXCEPT ![w].pc = "loop", ![w].size = 0]
            ELSE [workers EXCEPT ![w].pc = "picked", ![w].size = 0,
                                 ![w].job = CHOOSE j \in pending : \A k \in pending : j <= k]
    /\ UNCHANGED <<job_queue, n_queues, running, worker_thread, jobs, threads,
                   cancel_true, paperVars>>

\* _execute_job lines 166-169: `job.status = JobStatus.RUNNING`
ExecuteJobStart(w) ==
    /\ workers[w].pc = "picked"
    /\ jobs' = [jobs EXCEPT ![workers[w].job].status = "running",
                            ![workers[w].job].executions = @ + 1]
    /\ workers' = [workers EXCEPT ![w].pc = "executing"]
    /\ UNCHANGED <<job_queue, n_queues, running, worker_thread, threads, cancel_true,
                   paperVars>>

\* _execute_job lines 171-190: the body returns (COMPLETED) or raises (FAILED)
ExecuteJobEnd(w) ==
    /\ workers[w].pc = "executing"
    /\ \E outcome \in {"completed", "failed"} :
          jobs' = [jobs EXCEPT ![workers[w].job].status = outcome]
    /\ workers' = [workers EXCEPT ![w].pc = "loop", ![w].job = 0]
    /\ UNCHANGED <<job_queue, n_queues, running, worker_thread, threads, cancel_true,
                   paperVars>>

OrchInitState ==
    /\ bank_questions = <<>>
    /\ papers = <<>>
    /\ rendered = <<>>
    /\ orch_ret = "pending"

CallInitState ==
    /\ call_no = 1
    /\ first_result = NoResult

\* the module async_generator as imported: no queue object, no job, no thread
JobInitState ==
    /\ job_queue = 0
    /\ n_queues = 0
    /\ running = [q \in 1..MaxQueues |-> FALSE]
    /\ worker_thread = [q \in 1..MaxQueues |-> 0]
    /\ jobs = <<>>
    /\ workers = <<>>
    /\ threads = [t \in Threads |-> IdleThread(0)]
    /\ cancel_true = {}

\* the table behind the rows the selector is handed; no faculty_id is given
BankInitState ==
    /\ bank = BankOf(db_questions)
    /\ faculty_id = ""

SelInitState ==
    /\ candidates = <<>>
    /\ selected = <<>>
    /\ remaining_marks = 0
    /\ co_fulfilled = <<>>
    /\ unit_fulfilled = <<>>
    /\ co_i = 1
    /\ unit_i = 1
    /\ result = NoResult

\* a direct call of QuestionSelector.select_questions
InitSel ==
    /\ entry = "select"
    /\ blueprint \in Blueprints
    /\ db_questions \in Pools
    /\ randomize \in BOOLEAN
    /\ has_generator = FALSE
    /\ min_from_bank = DefaultMinFromBank
    /\ sel_pc = "start"
    /\ SelInitState
    /\ gen_pc = "idle"
    /\ GenInitState
    /\ orch_pc = "idle"
    /\ OrchInitState
    /\ CallInitState
    /\ JobInitState
    /\ BankInitState

NextSel ==
    \/ SelectStart
    \/ CoPick \/ CoBreak \/ CoMet \/ CoLoopEnd
    \/ UnitPick \/ UnitBreak \/ UnitMet \/ UnitLoopEnd
    \/ FillPick \/ FillStop
    \/ SelectReturn

\* the caller keeps the SelectionResult and calls select_questions again with
\* the same blueprint, the same rows and the same randomize
SelectAgain ==
    /\ entry = "select" /\ call_no = 1
    /\ sel_pc = "done"
    /\ first_result' = result
    /\ call_no' = 2
    /\ sel_pc' = "start"
    /\ candidates' = <<>>
    /\ selected' = <<>>
    /\ remaining_marks' = 0
    /\ co_fulfilled' = <<>>
    /\ unit_fulfilled' = <<>>
    /\ co_i' = 1
    /\ unit_i' = 1
    /\ result' = NoResult
    /\ UNCHANGED <<inputVars, jobVars, bankVars, genVars, orchVars>>

NextTwice == NextSel \/ SelectAgain

\* select_questions called with the midterm blueprint
InitScenarioA ==
    /\ entry = "select"
    /\ blueprint \in ScenarioBlueprints
    /\ db_questions \in ScenarioPools
    /\ randomize \in BOOLEAN
    /\ has_generator = FALSE
    /\ min_from_bank = DefaultMinFromBank
    /\ sel_pc = "start"
    /\ SelInitState
    /\ gen_pc = "idle"
    /\ GenInitState
    /\ orch_pc = "idle"
    /\ OrchInitState
    /\ CallInitState
    /\ JobInitState
    /\ BankInitState

\* the steps of select_questions under a blueprint without unit coverage:
\* the for loop of line 226 has no iteration
NextScenarioA ==
    \/ SelectStart
    \/ CoPick \/ CoBreak \/ CoMet \/ CoLoopEnd
    \/ UnitLoopEnd
    \/ FillPick \/ FillStop
    \/ SelectReturn

\* select_questions called on a questions table, with or without faculty_id
InitEligible ==
    /\ entry = "select"
    /\ blueprint \in EligibleBlueprints
    /\ bank \in Banks
    /\ faculty_id \in FacultyIds
    /\ db_questions = <<>>
    /\ randomize \in BOOLEAN
    /\ has_generator = FALSE
    /\ min_from_bank = DefaultMinFromBank
    /\ sel_pc = "fetch"
    /\ SelInitState
    /\ gen_pc = "idle"
    /\ GenInitState
    /\ orch_pc = "idle"
    /\ OrchInitState
    /\ CallInitState
    /\ JobInitState

NextEligible == SelectFetch \/ NextSel

\* a direct call of FreshPaperGenerator.generate_paper_questions
InitGen ==
    /\ entry = "generate"
    /\ blueprint \in Blueprints
    /\ db_questions = <<>>
    /\ randomize = FALSE
    /\ has_generator = TRUE
    /\ min_from_bank = DefaultMinFromBank
    /\ sel_pc = "idle"
    /\ SelInitState
    /\ gen_pc = "start"
    /\ GenInitState
    /\ orch_pc = "idle"
    /\ OrchInitState
    /\ CallInitState
    /\ JobInitState
    /\ BankInitState

NextGen ==
    \/ GenerateStart
    \/ PlanCoSpec \/ PlanCoNext \/ PlanCoEnd
    \/ PlanUnitSpec \/ PlanUnitNext \/ PlanUnitEnd
    \/ PlanFillSpec \/ PlanFillRaise \/ PlanReturn
    \/ ProduceOk \/ ProduceFail
    \/ GenerateReturn

\* a call of one of the three modes of PaperOrchestrator
InitOrch ==
    /\ entry \in {"bank", "fresh", "hybrid"}
    /\ blueprint \in OrchBlueprints
    /\ db_questions \in (IF entry = "fresh" THEN {<<>>} ELSE Pools)
    /\ randomize \in (IF entry = "bank" THEN BOOLEAN ELSE {TRUE})
    /\ has_generator \in (IF entry = "bank" THEN {FALSE} ELSE BOOLEAN)
    /\ min_from_bank \in (IF entry = "hybrid" THEN {DefaultMinFromBank - 1, DefaultMinFromBank}
                                              ELSE {DefaultMinFromBank})
    /\ sel_pc = "idle"
    /\ SelInitState
    /\ gen_pc = "idle"
    /\ GenInitState
    /\ orch_pc = "start"
    /\ OrchInitState
    /\ CallInitState
    /\ JobInitState
    /\ BankInitState

NextOrch ==
    \/ OrchStart \/ OrchRaise
    \/ BankSelected \/ FreshGenerated \/ HybridSelected \/ HybridSave
    \/ OrchRender
    \/ NextSel
    \/ NextGen

\* the module async_generator used by the calling threads
InitJobs ==
    /\ entry = "jobs"
    /\ blueprint = from_dict([constraints |-> <<>>])
    /\ db_questions = <<>>
    /\ randomize = FALSE
    /\ has_generator = FALSE
    /\ min_from_bank = DefaultMinFromBank
    /\ sel_pc = "idle"
    /\ SelInitState
    /\ gen_pc = "idle"
    /\ GenInitState
    /\ orch_pc = "idle"
    /\ OrchInitState
    /\ CallInitState
    /\ JobInitState
    /\ BankInitState

NextJobs ==
    \/ \E t \in Threads : GetJobQueueTest(t)
    \/ \E t \in Threads : GetJobQueueCreate(t)
    \/ \E t \in Threads : GetJobQueueStart(t)
    \/ \E t \in Threads : GetJobQueueReturn(t)
    \/ \E t \in Threads : StartWorkerTest(t)
    \/ \E t \in Threads : StartWorkerSpawn(t)
    \/ \E t \in Threads : StopWorkerClear(t)
    \/ \E t \in Threads : StopWorkerJoin(t)
    \/ \E t \in Threads : SubmitJob(t)
    \/ \E t \in Threads : \E j \in 1..Len(jobs) : CancelJobTest(t, j)
    \/ \E t \in Threads : CancelJobSet(t)
    \/ \E w \in 1..Len(workers) : WorkerLoopTest(w)
    \/ \E w \in 1..Len(workers) : WorkerScan(w)
    \/ \E w \in 1..Len(workers) : ExecuteJobStart(w)
    \/ \E w \in 1..Len(workers) : ExecuteJobEnd(w)

\* the module after get_job_queue() has returned the one JobQueue to both
\* calling threads: its worker thread is running, no job is submitted yet
InitWorker ==
    /\ entry = "jobs"
    /\ blueprint = from_dict([constraints |-> <<>>])
    /\ db_questions = <<>>
    /\ randomize = FALSE
    /\ has_generator = FALSE
    /\ min_from_bank = DefaultMinFromBank
    /\ sel_pc = "idle"
    /\ SelInitState
    /\ gen_pc = "idle"
    /\ GenInitState
    /\ orch_pc = "idle"
    /\ OrchInitState
    /\ CallInitState
    /\ BankInitState
    /\ job_queue = 1
    /\ n_queues = 1
    /\ running = [q \in 1..MaxQueues |-> q = 1]
    /\ worker_thread = [q \in 1..MaxQueues |-> IF q = 1 THEN 1 ELSE 0]
    /\ jobs = <<>>
    /\ workers = <<Worker(1)>>
    /\ threads = [t \in Threads |-> IdleThread(1)]
    /\ cancel_true = {}

\* the calling threads submit and cancel jobs; nobody calls stop_worker
NextWorker ==
    \/ \E t \in Threads : SubmitJob(t)
    \/ \E t \in Threads : \E j \in 1..Len(jobs) : CancelJobTest(t, j)
    \/ \E t \in Threads : CancelJobSet(t)
    \/ \E w \in 1..Len(workers) : WorkerLoopTest(w)
    \/ \E w \in 1..Len(workers) : WorkerScanBegin(w)
    \/ \E w \in 1..Len(workers) : WorkerScanEnd(w)
    \/ \E w \in 1..Len(workers) : ExecuteJobStart(w)
    \/ \E w \in 1..Len(workers) : ExecuteJobEnd(w)

vars == <<outerVars, selVars, genVars, orchVars>>

\* the worker thread is scheduled again and again, every job body ends, and
\* a cancel_job call that has begun returns
FairWorker ==
    /\ WF_vars(\E w \in 1..Len(workers) : WorkerLoopTest(w))
    /\ WF_vars(\E w \in 1..Len(workers) : WorkerScanBegin(w))
    /\ WF_vars(\E w \in 1..Len(workers) : WorkerScanEnd(w))
    /\ WF_vars(\E w \in 1..Len(workers) : ExecuteJobStart(w))
    /\ WF_vars(\E w \in 1..Len(workers) : ExecuteJobEnd(w))
    /\ WF_vars(\E t \in Threads : CancelJobSet(t))

SpecWorker == InitWorker /\ [][NextWorker]_vars /\ FairWorker

SpecSel == InitSel /\ [][NextSel]_vars

SpecTwice == InitSel /\ [][NextTwice]_vars

SpecScenarioA == InitScenarioA /\ [][NextScenarioA]_vars

SpecEligible == InitEligible /\ [][NextEligible]_vars

SpecGen == InitGen /\ [][NextGen]_vars

SpecOrch == InitOrch /\ [][NextOrch]_vars

SpecJobs == InitJobs /\ [][NextJobs]_vars

-----------------------------------------------------------------------------
(* Properties *)

target_marks == blueprint.marks_total

RECURSIVE Cost(_, _)
\* the summed marks of the questions of qs at the positions I
Cost(qs, I) ==
    IF I = {} THEN 0
    ELSE LET i == CHOOSE k \in I : TRUE IN qs[i].marks + Cost(qs, I \ {i})

TotalCost(qs) == Cost(qs, 1..Len(qs))

\* every CO minimum and every unit minimum of the blueprint is met by qs
HardConstraintsMet(qs) ==
    /\ \A i \in 1..Len(co_req) :
          Cost(qs, { k \in 1..Len(qs) : qs[k].primary_co = co_req[i][1] }) >= co_req[i][2]
    /\ \A i \in 1..Len(unit_req) :
          Cost(qs, { k \in 1..Len(qs) : qs[k].unit_id = unit_req[i][1] }) >= unit_req[i][2]

IdSet(ids) == { ids[i] : i \in 1..Len(ids) }

\* C1: in every step of the CO phase, the unit phase and the fill phase the
\* remaining-marks counter of the selector stays >= 0, so the marks of the
\* selected questions never exceed the blueprint's total marks.
C1_BudgetNeverExceeded ==
    sel_pc \in {"co", "unit", "fill", "return", "done"} =>
        /\ remaining_marks >= 0
        /\ TotalCost(selected) <= target_marks

\* C2 as stated: the returned success flag is TRUE exactly when every hard
\* constraint of the blueprint is met and the achieved marks are within 5 of
\* the target, results with an empty selected list included.
C2_SuccessIffAsStated ==
    sel_pc = "done" =>
        (result.success <=>
            /\ HardConstraintsMet(result.selected_questions)
            /\ Abs(result.total_marks - target_marks) <= 5)

\* C2 amended: the returned success flag is TRUE exactly when the selected
\* list is not empty, every hard constraint of the blueprint is met and the
\* achieved marks are within 5 of the target; a result with an empty
\* selected list has success FALSE.
C2_SuccessIff ==
    sel_pc = "done" =>
        (result.success <=>
            /\ result.selected_questions # <<>>
            /\ HardConstraintsMet(result.selected_questions)
            /\ Abs(result.total_marks - target_marks) <= 5)

\* a successful selection under a CO minimum and a unit minimum
C2_Witness ==
    /\ sel_pc = "done" /\ result.success
    /\ co_req # <<>> /\ unit_req # <<>>

\* C3: whenever the returned success flag is TRUE, the marks of the selected
\* questions sum to within 5 of the target and every CO minimum and every
\* unit minimum is met by the selected questions.
C3_SuccessImplies ==
    (sel_pc = "done" /\ result.success) =>
        /\ Abs(TotalCost(result.selected_questions) - target_marks) <= 5
        /\ HardConstraintsMet(result.selected_questions)

\* a successful selection of several questions that misses the target by a
\* few marks, under a CO minimum
C3_Witness ==
    /\ sel_pc = "done" /\ result.success
    /\ Len(result.selected_questions) >= 2
    /\ result.total_marks # target_marks
    /\ co_req # <<>>

\* C4 as stated: bank-only mode returns None only when the selected list is
\* empty; a non-empty selection is saved and rendered whatever its success
\* flag.
C4_NoneOnlyWhenEmptyAsStated ==
    (entry = "bank" /\ orch_pc = "done" /\ result.selected_questions # <<>>) =>
        /\ orch_ret = "path"
        /\ papers # <<>>

\* C4 amended: bank-only mode returns None, saving and rendering nothing,
\* exactly when the SelectionResult has success FALSE (an empty selection is
\* one such case); when success is TRUE it saves one paper holding the
\* selected ids and renders it.
C4_BankReturn ==
    (entry = "bank" /\ orch_pc = "done") =>
        IF result.success
        THEN /\ orch_ret = "path"
             /\ Len(papers) = 1
             /\ papers[1].question_ids = Ids(result.selected_questions)
             /\ rendered = <<Ids(result.selected_questions)>>
        ELSE /\ orch_ret = "None"
             /\ papers = <<>>
             /\ rendered = <<>>

\* bank-only mode returned None on a non-empty selection that failed
C4_Witness ==
    /\ entry = "bank" /\ orch_pc = "done"
    /\ result.selected_questions # <<>>
    /\ ~result.success
    /\ orch_ret = "None"

\* C5 as stated: in hybrid mode, whenever the selector returned at least
\* min_from_bank questions, whatever its success flag, every selected id is
\* in the saved paper.
C5_KeptWhenEnoughAsStated ==
    (entry = "hybrid" /\ papers # <<>>
       /\ Len(result.selected_questions) >= min_from_bank) =>
        IdSet(Ids(result.selected_questions)) \subseteq IdSet(papers[1].question_ids)

\* C5 amended: in hybrid mode the bank contribution is discarded when the
\* selector returned fewer than min_from_bank questions or success FALSE;
\* whenever it returned success TRUE and at least min_from_bank questions,
\* the saved paper's ids are the selected ids followed by the produced ids,
\* and after a selection with success FALSE the saved paper holds no
\* selected id.
C5_BankKept ==
    (entry = "hybrid" /\ papers # <<>>) =>
        /\ (result.success /\ Len(result.selected_questions) >= min_from_bank) =>
              papers[1].question_ids = Ids(result.selected_questions) \o question_ids
        /\ ~result.success =>
              IdSet(Ids(result.selected_questions)) \cap IdSet(papers[1].question_ids) = {}

\* a hybrid paper made of kept bank questions and produced questions
C5_Witness ==
    /\ entry = "hybrid" /\ papers # <<>>
    /\ result.success
    /\ Len(result.selected_questions) >= min_from_bank
    /\ question_ids # <<>>

\* C6: in hybrid mode, when the selector returned fewer than min_from_bank
\* questions, the bank questions are dropped, the plan is built for the full
\* target and every spec of it is handed to the producer, and the saved
\* paper holds no id of a selected question.
C6_FewBankQuestionsDiscarded ==
    (entry = "hybrid" /\ orch_pc \in {"generating", "combine", "saved", "done"}
       /\ Len(result.selected_questions) < min_from_bank) =>
        /\ bank_questions = <<>>
        /\ gen_pc # "idle"
        /\ papers # <<>> =>
              /\ gen_pc = "done"
              /\ PlanMarks(plan) = target_marks
              /\ Len(calls) = Len(plan)
              /\ papers[1].question_ids = question_ids
              /\ IdSet(Ids(result.selected_questions))
                    \cap IdSet(papers[1].question_ids) = {}

\* two questions selected with success under the default min_from_bank, and
\* a paper saved from produced questions only
C6_Witness ==
    /\ entry = "hybrid" /\ orch_pc = "done"
    /\ min_from_bank = DefaultMinFromBank
    /\ Len(result.selected_questions) = 2
    /\ result.success
    /\ papers # <<>> /\ papers[1].question_ids # <<>>

\* C7: no paper with an empty question list is ever saved, in any mode.
C7_NoEmptyPaper ==
    \A i \in 1..Len(papers) : papers[i].question_ids # <<>>

Failed(cs) == Cardinality({ i \in 1..Len(cs) : cs[i] = "failed" })

\* C8: a failed production call is skipped without retry and without ending
\* the batch: each spec of the plan is handed to the producer once, the ids
\* returned number len(plan) minus the failed calls, and no exception leaves
\* generate_paper_questions or the orchestrator once production has begun.
C8_FailuresSkipped ==
    /\ gen_pc = "produce" => Len(calls) = gen_i - 1
    /\ gen_pc = "done" =>
          /\ Len(calls) = Len(plan)
          /\ Len(question_ids) = Len(plan) - Failed(calls)
    /\ (gen_pc = "raised" \/ orch_ret = "raised") => calls = <<>>

\* one of five planned specs failed and a later one was still produced
C8_Witness ==
    /\ gen_pc = "done"
    /\ Len(plan) = 5 /\ Failed(calls) = 1 /\ Len(question_ids) = 4
    /\ calls[5] = "ok" /\ calls[2] = "failed"

\* C9: for a target of at least 2 marks the plan _build_generation_plan
\* returns sums to the target exactly, and the remaining marks never go
\* below zero while it is built.
C9_PlanTotalsTarget ==
    /\ plan_remaining >= 0
    /\ (gen_pc \in {"produce", "done"} /\ target_marks >= 2) =>
          /\ PlanMarks(plan) = target_marks
          /\ plan_remaining = 0

\* a returned plan with CO and unit minimums whose last spec takes the one
\* mark that was left
C9_Witness ==
    /\ gen_pc = "produce" /\ target_marks >= 2
    /\ co_req # <<>> /\ unit_req # <<>>
    /\ Len(plan) >= 3
    /\ plan[Len(plan)].marks = 1

\* the marks values of the menu
Menu == { STANDARD_MARKS[k] : k \in 1..Len(STANDARD_MARKS) }

\* the requirement the next spec is emitted for
RemainingRequirement ==
    CASE gen_pc = "plan_co" -> plan_co_req[plan_i][2] - allocated
      [] gen_pc = "plan_unit" -> plan_unit_req[plan_i][2] - allocated
      [] OTHER -> plan_remaining

\* this step appends a spec to the plan
EmitsSpec == Len(plan') = Len(plan) + 1

C11_EmptyPoolAsStated ==
    (db_questions = <<>> /\ validate(blueprint)) =>
        /\ sel_pc \notin {"co", "unit", "fill", "return"}
        /\ sel_pc = "done" =>
              result = SelectionResult(FALSE, <<>>, 0, <<>>, "no_eligible_items")

\* C11 amended: with no eligible question select_questions returns at once,
\* running no selection phase, a result with success FALSE, an empty selected
\* list, total marks 0, an empty constraints map and the diagnostic
\* no_eligible_questions (the value of selection_metadata['error']).
C11_EmptyPool ==
    (db_questions = <<>> /\ validate(blueprint)) =>
        /\ sel_pc \notin {"co", "unit", "fill", "return"}
        /\ sel_pc = "done" =>
              /\ result = SelectionResult(FALSE, <<>>, 0, <<>>, "no_eligible_questions")
              /\ candidates = <<>> /\ selected = <<>>

\* select_questions has returned on an empty list of eligible questions,
\* under a blueprint with minimums to meet
C11_Witness ==
    /\ sel_pc = "done" /\ db_questions = <<>>
    /\ co_req # <<>>
    /\ ~result.success /\ result.error = "no_eligible_questions"

LacksRequired == ~("marks_total" \in blueprint.types /\ "duration" \in blueprint.types)

\* no step of the selector, of the plan builder or of the orchestrator has run:
\* no row was fetched, no spec was built or handed to the producer, no paper
\* was saved or rendered, no result was returned
NothingRan ==
    /\ sel_pc \in {"idle", "start", "raised"}
    /\ candidates = <<>> /\ selected = <<>> /\ result = NoResult
    /\ gen_pc \in {"idle", "start", "raised"}
    /\ plan = <<>> /\ calls = <<>> /\ question_ids = <<>>
    /\ orch_pc \in {"idle", "start", "selecting", "generating", "raised"}
    /\ papers = <<>> /\ rendered = <<>>
    /\ orch_ret \in {"pending", "raised"}

\* the exception that left the call is the ValueError of validate
RaisedByValidate == sel_pc = "raised" \/ gen_pc = "raised"

\* C13 as stated: under a blueprint without the total-marks or the duration
\* constraint no step runs in the selector, the plan builder or any
\* orchestrator mode, and every orchestrator mode ends by raising the
\* validation error.
C13_ValidationFirstAsStated ==
    LacksRequired =>
        /\ NothingRan
        /\ orch_pc = "raised" => RaisedByValidate

\* C13 amended: under such a blueprint no step runs; the selector, the plan
\* builder, bank-only mode, and fresh and hybrid mode of an orchestrator that
\* has a question generator end by raising the validation error; fresh and
\* hybrid mode of an orchestrator without a generator raise the
\* generator-required ValueError first, validate not being reached.
C13_ValidationFirst ==
    LacksRequired =>
        /\ NothingRan
        /\ (orch_pc = "raised" /\ (entry = "bank" \/ has_generator)) => RaisedByValidate
        /\ (orch_pc = "raised" /\ entry # "bank" /\ ~has_generator) =>
              (sel_pc = "idle" /\ gen_pc = "idle")

\* fresh mode has raised the validation error out of generate_paper_questions
C13_Witness ==
    /\ LacksRequired
    /\ entry = "fresh" /\ has_generator
    /\ orch_pc = "raised" /\ gen_pc = "raised"

RECURSIVE SumValues(_)
\* sum(d.values())
SumValues(d) == IF d = <<>> THEN 0 ELSE Head(d)[2] + SumValues(Tail(d))

\* the selector or the plan builder is at work on the blueprint, or has been
BlueprintInUse ==
    \/ sel_pc \in {"co", "unit", "fill", "return", "done"}
    \/ gen_pc \in {"plan_co", "plan_unit", "plan_fill", "produce", "done"}

\* C14: a blueprint with a difficulty-mix constraint that the selector or the
\* plan builder works on has percentages that sum to 1.0 within 0.01,
\* however the blueprint was built.
C14_MixSumsToOne ==
    (BlueprintInUse /\ "difficulty_mix" \in blueprint.types) =>
        Abs(SumValues(blueprint.difficulty_mix) - 100) <= 1

\* C15: whatever the interleaving of get_job_queue, start_worker, stop_worker
\* and submit_job calls, at most one job has status RUNNING at any time and
\* no job's body is executed more than once.
C15_OneJobAtATime ==
    /\ Cardinality({ j \in 1..Len(jobs) : jobs[j].status = "running" }) <= 1
    /\ Cardinality({ w \in 1..Len(workers) : workers[w].pc = "executing" }) <= 1
    /\ \A j \in 1..Len(jobs) : jobs[j].executions <= 1

\* C16: a job for which cancel_job has returned True is never executed and
\* keeps the status CANCELLED, whatever the interleaving of cancel_job with
\* the worker thread.
C16_CancelledNeverRuns ==
    \A j \in cancel_true :
        /\ jobs[j].status = "cancelled"
        /\ jobs[j].executions = 0

\* the marks the selected questions of the result carry for a CO
CoMarks(co) ==
    Cost(result.selected_questions,
         { k \in 1..Len(result.selected_questions) :
             result.selected_questions[k].primary_co = co })

\* the result meets what the scenario promises: total in [45, 55] and every CO
\* at or above its minimum
ScenarioMet ==
    /\ result.total_marks >= 45 /\ result.total_marks <= 55
    /\ \A i \in 1..Len(co_req) : CoMarks(co_req[i][1]) >= co_req[i][2]

PoolMarks == { db_questions[k].marks : k \in 1..Len(db_questions) }

C18_OnePaperPerCall ==
    /\ Len(papers) <= 1 /\ Len(rendered) <= 1
    /\ papers # <<>> =>
          /\ papers[1].status = "finalized"
          /\ sel_pc \in {"idle", "done"} /\ gen_pc \in {"idle", "done"}
          /\ orch_pc \in {"saved", "done"}
    /\ orch_pc = "saved" => (papers # <<>> /\ rendered = <<>> /\ orch_ret = "pending")
    /\ rendered # <<>> => (papers # <<>> /\ rendered[1] = papers[1].question_ids)
    /\ orch_ret = "path" => (Len(papers) = 1 /\ Len(rendered) = 1)
    /\ orch_ret = "None" => (papers = <<>> /\ rendered = <<>>)

\* hybrid mode has saved a paper of bank questions and produced questions
\* and has not rendered it yet
C18_Witness ==
    /\ entry = "hybrid" /\ orch_pc = "saved"
    /\ bank_questions # <<>> /\ question_ids # <<>>
    /\ Len(papers) = 1 /\ rendered = <<>>

\* hybrid mode has kept the selector's questions (the test of line 168 held)
BankKept ==
    /\ entry = "hybrid" /\ orch_pc \in {"generating", "combine", "saved", "done"}
    /\ result.success /\ Len(result.selected_questions) >= min_from_bank

\* the marks of the kept bank questions
BankMarks == TotalCost(result.selected_questions)

\* C19: in hybrid mode with the bank questions kept, the generator runs
\* exactly when target marks minus bank marks is above zero; the plan it
\* builds is for the full blueprint, so its marks sum to the full target T;
\* and when every production call succeeds the saved paper holds the bank
\* ids followed by one produced id per spec, BankMarks + T marks in all.
C19_HybridFullBlueprint ==
    BankKept =>
        /\ bank_questions = result.selected_questions
        /\ (gen_pc # "idle") <=> (target_marks - BankMarks > 0)
        /\ gen_pc \in {"produce", "done"} => PlanMarks(plan) = target_marks
        /\ (papers # <<>> /\ Failed(calls) = 0) =>
              /\ papers[1].question_ids = Ids(bank_questions) \o question_ids
              /\ Len(question_ids) = Len(plan)
              /\ BankMarks + TotalCost(db_generated) = BankMarks + PlanMarks(plan)
              /\ gen_pc = "done" =>
                    BankMarks + TotalCost(db_generated) = BankMarks + target_marks

\* a hybrid paper of kept bank questions worth less than the target plus a
\* full target's worth of produced questions
C19_Witness ==
    /\ BankKept /\ orch_pc = "done"
    /\ BankMarks < target_marks
    /\ gen_pc = "done" /\ Failed(calls) = 0
    /\ TotalCost(db_generated) = target_marks
    /\ papers # <<>>

\* the question rows behind the ids of a saved paper
PaperItems(pp) ==
    LET rows == Catalog \cup { db_generated[k] : k \in 1..Len(db_generated) }
    IN [i \in 1..Len(pp.question_ids) |->
          CHOOSE q \in rows : q.id = pp.question_ids[i]]

RECURSIVE SumOver(_, _)
\* the sum of the values of a map over the keys K
SumOver(m, K) ==
    IF K = {} THEN 0
    ELSE LET k == CHOOSE x \in K : TRUE IN m[k] + SumOver(m, K \ {k})

\* the map holds, for every tag some item carries, the summed marks of the
\* items with that tag, and nothing else; so its values add up to the
\* marks of all the items
SumsByTag(m, items, tags) ==
    /\ DOMAIN m = { tags[i] : i \in 1..Len(items) }
    /\ \A t \in DOMAIN m : m[t] = Cost(items, { i \in 1..Len(items) : tags[i] = t })
    /\ SumOver(m, DOMAIN m) = TotalCost(items)

\* C20 as stated: every saved paper carries a per-CO map, a per-unit map and
\* a per-Bloom-level map, each giving for a tag the summed marks of the
\* paper's questions with that tag, so that each map's values add up to the
\* marks of the paper's questions.
C20_CoverageSummariesAsStated ==
    \A p \in 1..Len(papers) :
        LET items == PaperItems(papers[p])
        IN /\ "unit_coverage" \in DOMAIN papers[p]
           /\ SumsByTag(papers[p].unit_coverage, items,
                        [i \in 1..Len(items) |-> items[i].unit_id])
           /\ SumsByTag(papers[p].co_coverage, items,
                        [i \in 1..Len(items) |-> items[i].primary_co])
           /\ SumsByTag(papers[p].bloom_distribution, items,
                        [i \in 1..Len(items) |-> items[i].bloom_level])

\* the program outcomes of a question, as a set
OutcomeSet(q) == { q.program_outcomes[k] : k \in 1..Len(q.program_outcomes) }

\* C20 amended: every saved paper carries a per-CO map, a per-Bloom-level map
\* and a per-program-outcome map, and no per-unit map.  The CO map and the
\* Bloom map give for a tag the summed marks of the paper's questions with
\* that tag, so their values add up to the marks of the paper's questions.
\* The program-outcome map gives for an outcome the summed marks of the
\* questions that list it: a question counts once for each outcome it lists
\* and not at all when it lists none.
C20_CoverageSummaries ==
    \A p \in 1..Len(papers) :
        LET items == PaperItems(papers[p])
            po == papers[p].po_coverage
        IN /\ {"co_coverage", "bloom_distribution", "po_coverage"} \subseteq DOMAIN papers[p]
           /\ "unit_coverage" \notin DOMAIN papers[p]
           /\ SumsByTag(papers[p].co_coverage, items,
                        [i \in 1..Len(items) |-> items[i].primary_co])
           /\ SumsByTag(papers[p].bloom_distribution, items,
                        [i \in 1..Len(items) |-> items[i].bloom_level])
           /\ DOMAIN po = UNION { OutcomeSet(items[i]) : i \in 1..Len(items) }
           /\ \A o \in DOMAIN po :
                 po[o] = Cost(items, { i \in 1..Len(items) : o \in OutcomeSet(items[i]) })

\* a saved hybrid paper of bank and produced questions whose program-outcome
\* map adds up to more than the marks of its questions
C20_Witness ==
    /\ entry = "hybrid" /\ papers # <<>>
    /\ bank_questions # <<>> /\ question_ids # <<>>
    /\ Cardinality(DOMAIN papers[1].co_coverage) = 2
    /\ SumOver(papers[1].po_coverage, DOMAIN papers[1].po_coverage)
          > TotalCost(PaperItems(papers[1]))

\* the marks selected so far for a CO
SelectedForCo(co) == Cost(selected, { k \in 1..Len(selected) : selected[k].primary_co = co })

\* C21: the while loop of a CO of the blueprint is left only when the marks
\* selected for that CO have reached its minimum or when no unselected
\* candidate of that CO with marks <= remaining_marks exists; leaving it with
\* a deficit does not end the selection: the for loop goes on with the next
\* CO, and a result built from a non-empty pool is built after every CO, every
\* unit and the fill phase have had their turn.
C21_CoLoopExit ==
    [][ /\ (sel_pc = "co" /\ co_i <= Len(co_req) /\ co_i' # co_i) =>
              /\ \/ SelectedForCo(co_req[co_i][1]) >= co_req[co_i][2]
                 \/ ~\E k \in 1..Len(candidates) :
                        /\ candidates[k].primary_co = co_req[co_i][1]
                        /\ candidates[k].marks <= remaining_marks
              /\ sel_pc' = "co" /\ co_i' = co_i + 1
              /\ selected' = selected
        /\ (sel_pc = "return" /\ sel_pc' = "done") =>
              (co_i > Len(co_req) /\ unit_i > Len(unit_req)) ]_vars

\* a returned selection that left the first CO short and still met the second
C21_Witness ==
    /\ sel_pc = "done" /\ Len(co_req) = 2
    /\ SelectedForCo(co_req[1][1]) < co_req[1][2]
    /\ SelectedForCo(co_req[2][1]) >= co_req[2][2]
    /\ result.selected_questions = selected /\ selected # <<>>

\* the marks selected so far for a unit
SelectedForUnit(u) == Cost(selected, { k \in 1..Len(selected) : selected[k].unit_id = u })

\* C22: through the CO phase and the unit phase the running total of every
\* unit of the blueprint is the marks of all questions selected so far in
\* that unit, whichever phase picked them, and the running total of every CO
\* of the blueprint is the marks of all questions selected so far with that
\* CO; so the unit phase picks a question for a unit only while the questions
\* selected so far leave that unit short of its minimum.
C22_ProgressCredited ==
    [][ /\ sel_pc' \in {"co", "unit"} =>
              /\ \A u \in Keys(unit_req) : unit_fulfilled'[u] = SelectedForUnit(u)'
              /\ \A c \in Keys(co_req) : co_fulfilled'[c] = SelectedForCo(c)'
        /\ (sel_pc = "unit" /\ selected' # selected) =>
              SelectedForUnit(unit_req[unit_i][1]) < unit_req[unit_i][2] ]_vars

\* the CO phase picked one question, that question covers the first unit's
\* minimum, and the unit phase left a question of that unit unpicked although
\* with remaining_marks = 0 no marks filter would have kept it out.  (The one
\* selected question is a CO-phase pick: its CO has a minimum, so the CO
\* phase, run on the same candidates and marks, found it first.)
C22_Witness ==
    /\ sel_pc = "done" /\ co_req # <<>> /\ unit_req # <<>>
    /\ Len(selected) = 1 /\ remaining_marks = 0
    /\ selected[1].primary_co = co_req[1][1]
    /\ selected[1].unit_id = unit_req[1][1]
    /\ unit_fulfilled[unit_req[1][1]] >= unit_req[1][2]
    /\ \E k \in 1..Len(candidates) : candidates[k].unit_id = unit_req[1][1]

\* target share minus current share of the dict entry i, times 100 * the marks
\* selected so far (times 100 when nothing is selected: every share is zero)
Deficit(dist, i, tagOf) ==
    IF selected = <<>> THEN dist[i][2]
    ELSE dist[i][2] * TotalCost(selected)
         - 100 * Cost(selected, { k \in 1..Len(selected) : tagOf[k] = dist[i][1] })

\* the entries of the dict with the largest deficit
MostUnderrepresented(dist, tagOf) ==
    { i \in 1..Len(dist) : \A j \in 1..Len(dist) : Deficit(dist, j, tagOf) <= Deficit(dist, i, tagOf) }

SelectedBlooms == [k \in 1..Len(selected) |-> selected[k].bloom_level]
SelectedDifficulties == [k \in 1..Len(selected) |-> selected[k].difficulty]

\* 100 times the score 10*[bloom preferred] + 5*[difficulty preferred] + 3*quality/100
StatedScore(q, blooms, diffs) ==
    (IF q.bloom_level \in blooms THEN 1000 ELSE 0)
    + (IF q.difficulty \in diffs THEN 500 ELSE 0) + 3 * q.quality_score

\* the candidates whose marks fit the remaining marks
Fitting == { k \in 1..Len(candidates) : candidates[k].marks <= remaining_marks }

\* the step picks the candidate at position k: among the fitting candidates it
\* has the highest score under the preferences, and is the first of those
PicksBest(k, blooms, diffs) ==
    /\ k \in Fitting
    /\ selected' = Append(selected, candidates[k])
    /\ candidates' = RemoveAt(candidates, k)
    /\ \A j \in Fitting :
          \/ StatedScore(candidates[j], blooms, diffs) < StatedScore(candidates[k], blooms, diffs)
          \/ /\ StatedScore(candidates[j], blooms, diffs) = StatedScore(candidates[k], blooms, diffs)
             /\ k <= j

\* the fill phase is over: nothing left to spend, no candidate left, or none fits
FillOver == remaining_marks = 0 \/ candidates = <<>> \/ Fitting = {}

\* C23 as stated: every step of the fill phase picks, among the fitting
\* candidates, the first one of the highest score, where the preferred Bloom
\* level and the preferred difficulty are a value of the largest (target
\* share - current share) of the blueprint's distribution, the current shares
\* being those of the questions selected so far (all zero when none is
\* selected); the phase ends exactly when FillOver holds.
C23_FillPickAsStated ==
    [][ sel_pc = "fill" =>
          LET bd == bloom_distribution(blueprint)
              dm == difficulty_mix(blueprint)
              bs == IF bd = <<>> THEN {{}}
                    ELSE { {bd[i][1]} : i \in MostUnderrepresented(bd, SelectedBlooms) }
              ds == IF dm = <<>> THEN {{}}
                    ELSE { {dm[i][1]} : i \in MostUnderrepresented(dm, SelectedDifficulties) }
          IN IF FillOver THEN sel_pc' = "return" /\ selected' = selected
             ELSE \E b \in bs : \E d \in ds : \E k \in Fitting : PicksBest(k, b, d) ]_vars

\* the one value _get_underrepresented_* prefers: none when the blueprint has
\* no such distribution or nothing is selected yet, else the first entry of
\* the dict among those with the largest deficit
Preferred(dist, tagOf) ==
    IF dist = <<>> \/ selected = <<>> THEN {}
    ELSE LET m == MostUnderrepresented(dist, tagOf)
         IN { dist[CHOOSE i \in m : \A j \in m : i <= j][1] }

\* C23 amended: every step of the fill phase picks, among the fitting
\* candidates, the first one of the highest score 10*[Bloom level preferred]
\* + 5*[difficulty preferred] + 3*quality/100; a value is preferred only when
\* the blueprint has the distribution and at least one question is selected
\* already, and it is then the first entry of the distribution with the
\* largest (target share - current share); with nothing selected the score
\* is 3*quality/100 alone.  The phase ends exactly when FillOver holds.
C23_FillPick ==
    [][ sel_pc = "fill" =>
          IF FillOver THEN sel_pc' = "return" /\ selected' = selected
          ELSE \E k \in Fitting :
                 PicksBest(k, Preferred(bloom_distribution(blueprint), SelectedBlooms),
                           Preferred(difficulty_mix(blueprint), SelectedDifficulties)) ]_vars

\* the last question was picked by the fill phase (the questions before it
\* already met every minimum) after at least one other, and a candidate of
\* higher quality that fitted when that pick was made is still unpicked: the
\* preference decided the pick
C23_Witness ==
    /\ sel_pc = "done" /\ Len(selected) >= 2
    /\ HardConstraintsMet(SubSeq(selected, 1, Len(selected) - 1))
    /\ \E k \in 1..Len(candidates) :
          /\ candidates[k].marks <= remaining_marks + selected[Len(selected)].marks
          /\ candidates[k].quality_score > selected[Len(selected)].quality_score

\* C24: generate_paper_questions raises only for a blueprint that fails
\* validate; for every blueprint with marks_total and duration, one without
\* co_coverage included, _build_generation_plan returns its plan.
C24_PlanNeverRaises ==
    (entry = "generate" /\ gen_pc = "raised") => ~validate(blueprint)

\* some questions of the bank, at least one, meet every CO and unit minimum of
\* the blueprint with marks within 5 of the target and not above it
SatisfyingSubsetExists ==
    \E S \in SUBSET { db_questions[k] : k \in 1..Len(db_questions) } :
        /\ S # {}
        /\ HardConstraintsMet(SeqOfSet(S))
        /\ TotalCost(SeqOfSet(S)) \in (target_marks - 5)..target_marks

\* C25: whenever some questions of the bank meet every hard constraint with
\* marks within 5 of the target (here even: without exceeding the target),
\* select_questions with randomize = False returns success = True.
C25_BacktracksWhenStuck ==
    (sel_pc = "done" /\ ~randomize /\ SatisfyingSubsetExists) => result.success

\* the accepted questions of the blueprint's course in the table, as ids
AcceptedInScope == { r.q.id : r \in { x \in bank : x.review_status = "accepted" /\ x.course_code = course_code } }

\* those of them the requester wrote
OwnAcceptedInScope ==
    { r.q.id : r \in { x \in bank : /\ x.review_status = "accepted"
                                     /\ x.course_code = course_code
                                     /\ x.faculty_id = faculty_id } }

\* C26: when select_questions is given a faculty_id, the questions the greedy
\* pass works on (its candidates and what it has selected from them) are
\* exactly the faculty's own accepted questions of the blueprint's course when
\* there are any, and else exactly all accepted questions of that course; so
\* every question of the returned selection is accepted and of that course.
C26_EligiblePool ==
    faculty_id # "" =>
        LET pool == IF OwnAcceptedInScope # {} THEN OwnAcceptedInScope ELSE AcceptedInScope
        IN /\ sel_pc \in {"co", "unit", "fill", "return"} =>
                 IdSet(Ids(candidates)) \cup IdSet(Ids(selected)) = pool
           /\ sel_pc = "done" =>
                 /\ IdSet(Ids(result.selected_questions)) \subseteq AcceptedInScope
                 /\ (result.error = "no_eligible_questions") = (pool = {})

\* the requester has a row in the table but none accepted for the course, and
\* the returned selection holds an accepted question of another faculty
C26_Witness ==
    /\ sel_pc = "done" /\ faculty_id # ""
    /\ \E r \in bank : r.faculty_id = faculty_id
    /\ OwnAcceptedInScope = {}
    /\ result.selected_questions # <<>>
    /\ \E r \in bank : r.review_status # "accepted" \/ r.course_code # course_code

\* C27: in every returned SelectionResult with a non-empty selection the
\* entries bloom_distribution and difficulty_mix of constraints_satisfied are
\* True, whatever the Bloom levels and difficulties of the selected questions;
\* so success is decided by the other entries alone: the total marks within
\* 5 of the target and the CO and unit minimums.
C27_SoftAlwaysTrue ==
    (sel_pc = "done" /\ result.selected_questions # <<>>) =>
        /\ result.constraints_satisfied["bloom_distribution"]
        /\ result.constraints_satisfied["difficulty_mix"]
        /\ result.success =
              (/\ Abs(TotalCost(result.selected_questions) - target_marks) <= 5
               /\ HardConstraintsMet(result.selected_questions))

\* a successful result under a blueprint with a Bloom distribution and a
\* difficulty mix in which a level and a difficulty with a positive target
\* have no selected question at all
C27_Witness ==
    /\ sel_pc = "done" /\ result.success
    /\ \E i \in 1..Len(bloom_distribution(blueprint)) :
          /\ bloom_distribution(blueprint)[i][2] > 0
          /\ \A k \in 1..Len(selected) :
                selected[k].bloom_level # bloom_distribution(blueprint)[i][1]
    /\ \E i \in 1..Len(difficulty_mix(blueprint)) :
          /\ difficulty_mix(blueprint)[i][2] > 0
          /\ \A k \in 1..Len(selected) :
                selected[k].difficulty # difficulty_mix(blueprint)[i][1]

\* the marks the plan gives to a CO
PlanMarksForCo(co) == PlanMarks(SelectSeq(plan, LAMBDA sp : sp.co_id = co))

\* C28: whenever the CO minimums of the blueprint add up to no more than the
\* total marks, the plan _build_generation_plan returns gives every CO specs
\* whose marks add up to at least the CO's minimum.
C28_NoCoStarved ==
    (gen_pc \in {"produce", "done"} /\ SumValues(plan_co_req) <= target_marks) =>
        \A i \in 1..Len(plan_co_req) :
            PlanMarksForCo(plan_co_req[i][1]) >= plan_co_req[i][2]

\* no value occurs at two positions of the list
NoDuplicate(ids) == \A i, j \in 1..Len(ids) : ids[i] = ids[j] => i = j

\* C29: no question id occurs twice in the list the selector is building, in
\* the selected_questions of a SelectionResult, in the question_ids of a
\* saved paper of any mode (bank ids followed by generated ids in hybrid
\* mode) or in a list handed to generate_pdf.
C29_NoDuplicateIds ==
    /\ NoDuplicate(Ids(selected))
    /\ NoDuplicate(Ids(result.selected_questions))
    /\ \A p \in 1..Len(papers) : NoDuplicate(papers[p].question_ids)
    /\ \A r \in 1..Len(rendered) : NoDuplicate(rendered[r])

\* a saved hybrid paper of at least two bank questions, selected under CO
\* minimums, followed by at least two generated questions
C29_Witness ==
    /\ entry = "hybrid" /\ papers # <<>>
    /\ Len(bank_questions) >= 2 /\ Len(question_ids) >= 2
    /\ papers[1].question_ids = Ids(bank_questions) \o question_ids
    /\ co_req # <<>>

\* C30: with the worker started and never stopped, and every job body
\* ending, every submitted job leaves PENDING for good: it ends COMPLETED or
\* FAILED unless it was cancelled; and a job is started only when no job
\* submitted before it to the same queue is still PENDING.
C30_EveryJobFinishes ==
    /\ \A j \in 1..MaxJobs :
          (j <= Len(jobs) /\ jobs[j].status = "pending")
             ~> (j <= Len(jobs) /\ jobs[j].status \in {"completed", "failed", "cancelled"})
    /\ [][ \A j \in 1..Len(jobs) :
             (jobs[j].status = "pending" /\ jobs'[j].status = "running") =>
                 \A i \in 1..(j - 1) :
                     jobs[i].queue = jobs[j].queue => jobs[i].status # "pending" ]_vars

=============================================================================
